---- MODULE Spec2Model ----
(***************************************************************************)
(* Model of the taller-frontend request client (hooks/useApi: fetchCore    *)
(* and fetchApi).  One client is constructed with a token; a call of       *)
(* fetchApi is a record that moves through the retry loop.                 *)
(*                                                                         *)
(* JavaScript values are records tagged by t ("null", "undefined", "str",  *)
(* "obj").  A string is a sequence of text fragments, concatenation is \o  *)
(* and String.includes looks for a fragment.                               *)
(***************************************************************************)
EXTENDS Integers, Sequences, FiniteSets, TLC

VARIABLES token, call, shell, storage, auth, cform, tform, calls, last, now

\* token, call: one client of useApi and one call of its fetchApi.
clientVars == <<token, call>>

\* shell: token, user and view of App; storage: the browser's durable
\* storage; auth, cform, tform: the state of AuthForm, AccountContainerForm
\* and TransactionForm; calls: the fetchApi calls and the position requests
\* in flight with the handler that awaits each; last: the event that
\* produced the state.
\* now: the clock read by Date.now().
appVars == <<shell, storage, auth, cform, tform, calls, last, now>>

vars == <<token, call, shell, storage, auth, cform, tform, calls, last, now>>

\* ---------------------------------------------------------------- bounds
\* Largest value of the retries parameter the model explores.
MaxRetries == 3

\* No data load, change of view or position request is started that would
\* leave more than MaxCalls calls in flight.  Submissions are limited by the
\* forms alone.
MaxCalls == 1

\* Last value of the clock and largest number of accounts in the container
\* form.
MaxClock == 3
MaxAccounts == 3

\* Largest number of account-list loads in flight at once when the container
\* selection is switched.
MaxLoads == 2

\* ------------------------------------------------------------- JS values
JNull == [t |-> "null"]
JUndef == [t |-> "undefined"]
JStr(s) == [t |-> "str", v |-> s]
JObj(f) == [t |-> "obj", f |-> f]
JArr(a) == [t |-> "arr", a |-> a]
JBool(b) == [t |-> "bool", v |-> b]

\* F applied to the value of v, which is computed once.
Bind(v, F(_)) == CHOOSE r \in {F(y) : y \in {v}} : TRUE

NaN == [t |-> "nan"]
Infinity(neg) == [t |-> "inf", neg |-> neg]

\* Number of zero digits at the start of d from position i on.
RECURSIVE ZerosFrom(_, _)
ZerosFrom(d, i) == IF i =< Len(d) /\ d[i] = 0 THEN 1 + ZerosFrom(d, i + 1) ELSE 0

\* Number of zero digits at the end of d before position i.
RECURSIVE ZerosBefore(_, _)
ZerosBefore(d, i) == IF i >= 1 /\ d[i] = 0 THEN 1 + ZerosBefore(d, i - 1) ELSE 0

\* A finite number: sign, significant decimal digits d (values 0..9, most
\* significant first, no zero at either end) and the number n of digits
\* before the decimal point, 0.d1...dk * 10^n.  Zero has no digits.
Dec(neg, d, n) ==
    Bind(ZerosFrom(d, 1), LAMBDA lead :
      IF lead = Len(d) THEN [t |-> "num", neg |-> FALSE, d |-> <<>>, n |-> 0]
      ELSE [t |-> "num", neg |-> neg,
            d |-> SubSeq(d, lead + 1, Len(d) - ZerosBefore(d, Len(d))),
            n |-> n - lead])

\* Decimal digits of a natural number.
RECURSIVE NatDigits(_)
NatDigits(i) == IF i = 0 THEN <<>> ELSE Append(NatDigits(i \div 10), i % 10)

\* The number of an integer.
JNum(i) ==
    IF i < 0 THEN Dec(TRUE, NatDigits(0 - i), Len(NatDigits(0 - i)))
    ELSE Dec(FALSE, NatDigits(i), Len(NatDigits(i)))

\* JavaScript truthiness, as tested by `if (token)` and `body ? ... : null`
\* and by the left operand of ||.
Truthy(x) ==
    CASE x.t = "null" -> FALSE
      [] x.t = "undefined" -> FALSE
      [] x.t = "str" -> x.v # <<>>
      [] x.t = "num" -> x.d # <<>>
      [] x.t = "nan" -> FALSE
      [] x.t = "bool" -> x.v
      [] OTHER -> TRUE

\* Property read x.name of an object value; undefined when absent.
GetField(x, name) ==
    IF x.t = "obj" /\ name \in DOMAIN x.f THEN x.f[name] ELSE JUndef

\* The fragments of a text joined to one string.
RECURSIVE Joined(_)
Joined(s) == IF s = <<>> THEN "" ELSE Head(s) \o Joined(Tail(s))

\* String.prototype.includes(needle): needle occurs somewhere in the text.
Includes(s, needle) ==
    Bind(Joined(s), LAMBDA text :
      \E k \in 1..(Len(text) - Len(needle) + 1) :
          SubSeq(text, k, k + Len(needle) - 1) = needle)

\* A text is written with the characters of ASCII standing for themselves,
\* the backslash excepted; every other UTF-16 code unit, and the backslash,
\* is written as in a JavaScript string literal: a backslash, the letter u
\* and the four lower-case hexadecimal digits of the unit, so that the
\* no-break space is "\\u00a0" and the backslash "\\u005c".
\* The code units of one fragment, an escape being one unit.
RECURSIVE Units(_)
Units(f) ==
    IF Len(f) = 0 THEN <<>>
    ELSE Bind(IF Len(f) >= 6 /\ SubSeq(f, 1, 2) = "\\u" THEN 6 ELSE 1, LAMBDA w :
           <<SubSeq(f, 1, w)>> \o Units(SubSeq(f, w + 1, Len(f))))

\* The code units of a text, one fragment each.
RECURSIVE Chars(_)
Chars(s) == IF s = <<>> THEN <<>> ELSE Units(Head(s)) \o Chars(Tail(s))

\* String.prototype.length
TextLength(s) == Len(Chars(s))

\* The white space and the line terminators of JavaScript, which trim()
\* strips and parseFloat skips: tab, line feed, vertical tab, form feed,
\* carriage return, space, no-break space, U+1680, U+2000 to U+200A, U+2028,
\* U+2029, U+202F, U+205F, U+3000 and U+FEFF.
WhiteSpace ==
    {"\t", "\n", "", "\f", "\r", " ", "\\u00a0", "\\u1680",
     "\\u2000", "\\u2001", "\\u2002", "\\u2003", "\\u2004", "\\u2005",
     "\\u2006", "\\u2007", "\\u2008", "\\u2009", "\\u200a",
     "\\u2028", "\\u2029", "\\u202f", "\\u205f", "\\u3000", "\\ufeff"}
Digits == {"0", "1", "2", "3", "4", "5", "6", "7", "8", "9"}
DigitValue(c) ==
    CASE c = "0" -> 0 [] c = "1" -> 1 [] c = "2" -> 2 [] c = "3" -> 3
      [] c = "4" -> 4 [] c = "5" -> 5 [] c = "6" -> 6 [] c = "7" -> 7
      [] c = "8" -> 8 [] c = "9" -> 9

\* The code units cs without the white space at their start.
RECURSIVE TrimStart(_)
TrimStart(cs) ==
    IF cs # <<>> /\ Head(cs) \in WhiteSpace THEN TrimStart(Tail(cs)) ELSE cs

\* The code units cs without the white space at their end.
RECURSIVE TrimEnd(_)
TrimEnd(cs) ==
    IF cs # <<>> /\ cs[Len(cs)] \in WhiteSpace
    THEN TrimEnd(SubSeq(cs, 1, Len(cs) - 1)) ELSE cs

\* String.prototype.trim()
Trim(s) == TrimEnd(TrimStart(Chars(s)))

\* Length of the longest prefix of s made of digits.
RECURSIVE DigitRun(_)
DigitRun(s) ==
    IF s # <<>> /\ Head(s) \in Digits THEN 1 + DigitRun(Tail(s)) ELSE 0

\* Value of a digit sequence read as an integer; 10^9 stands for every
\* value from 10^9 on.
RECURSIVE DigitsValue(_)
DigitsValue(d) ==
    IF d = <<>> THEN 0
    ELSE Bind(DigitsValue(SubSeq(d, 1, Len(d) - 1)), LAMBDA p :
           IF p >= 100000000 THEN 1000000000
           ELSE 10 * p + DigitValue(d[Len(d)]))

\* Exact arithmetic on positive decimals [d |-> digits, n |-> point].
\* 2 * x: a digit takes the carry of the digit to its right, which is 1
\* exactly when that digit is 5 or more.
Twice(x) ==
    LET k == Len(x.d)
        s == [i \in 1..(k + 1) |->
                ((IF i > 1 THEN 2 * x.d[i - 1] ELSE 0)
                 + (IF i =< k /\ x.d[i] >= 5 THEN 1 ELSE 0)) % 10]
        lead == IF s[1] = 0 THEN 1 ELSE 0
        trail == IF s[k + 1] = 0 THEN 1 ELSE 0
    IN [d |-> SubSeq(s, 1 + lead, k + 1 - trail), n |-> x.n + 1 - lead]

\* x / 2: a digit takes 5 from an odd digit to its left.
Half(x) ==
    LET k == Len(x.d)
        s == [i \in 1..(k + 1) |->
                (IF i =< k THEN x.d[i] \div 2 ELSE 0)
                + (IF i > 1 /\ x.d[i - 1] % 2 = 1 THEN 5 ELSE 0)]
        lead == IF s[1] = 0 THEN 1 ELSE 0
        trail == IF s[k + 1] = 0 THEN 1 ELSE 0
    IN [d |-> SubSeq(s, 1 + lead, k + 1 - trail), n |-> x.n - lead]

\* x * 2^k, for any integer k.
RECURSIVE Scaled(_, _)
Scaled(x, k) ==
    CASE k = 0 -> x
      [] k = 1 -> Twice(x)
      [] k = 0 - 1 -> Half(x)
      [] OTHER -> Bind(Scaled(x, k \div 2), LAMBDA y : Scaled(y, k - (k \div 2)))

\* x < y for positive decimals: the one with more digits before the point
\* is larger, else the first digit that differs decides.
RECURSIVE LessFrom(_, _, _)
LessFrom(x, y, i) ==
    LET a == IF i =< Len(x.d) THEN x.d[i] ELSE 0
        b == IF i =< Len(y.d) THEN y.d[i] ELSE 0
    IN IF i > Len(x.d) /\ i > Len(y.d) THEN FALSE
       ELSE IF a # b THEN a < b
       ELSE LessFrom(x, y, i + 1)

Less(x, y) ==
    CASE x.d = <<>> -> y.d # <<>>
      [] y.d = <<>> -> FALSE
      [] x.n # y.n -> x.n < y.n
      [] OTHER -> LessFrom(x, y, 1)

\* The digits of a natural number as a decimal, and back.
FromInt(m) == [d |-> SubSeq(m, 1, Len(m) - ZerosBefore(m, Len(m))), n |-> Len(m)]
IntDigits(x) ==
    IF x.n =< 0 THEN <<>>
    ELSE [i \in 1..x.n |-> IF i =< Len(x.d) THEN x.d[i] ELSE 0]

\* m + 1 and m - 1 (m > 0) on the digits of a natural number.
Succ(m) ==
    LET k == Len(m)
        nines == ZerosBefore([i \in 1..k |-> 9 - m[i]], k)
    IN IF nines = k THEN <<1>> \o [i \in 1..k |-> 0]
       ELSE [i \in 1..k |-> IF i < k - nines THEN m[i]
                            ELSE IF i = k - nines THEN m[i] + 1 ELSE 0]

Pred(m) ==
    LET k == Len(m)
        zeros == ZerosBefore(m, k)
        s == [i \in 1..k |-> IF i < k - zeros THEN m[i]
                             ELSE IF i = k - zeros THEN m[i] - 1 ELSE 9]
    IN IF s[1] = 0 THEN SubSeq(s, 2, k) ELSE SubSeq(s, 1, k)

\* 2^52 and 2^53: a double m * 2^q has a significand m below 2^53, and at
\* least 2^52 unless its exponent q is the least one.  The significand has
\* 52 bits after its first, and the first carries 2^(-1022) to 2^1023.
TwoTo52 == FromInt(<<4, 5, 0, 3, 5, 9, 9, 6, 2, 7, 3, 7, 0, 4, 9, 6>>)
TwoTo53 == FromInt(<<9, 0, 0, 7, 1, 9, 9, 2, 5, 4, 7, 4, 0, 9, 9, 2>>)
MinExponent == 0 - 1022 - 52
MaxExponent == 1023 - 52

\* The exponent q and the scaled value w = x / 2^q with 2^52 <= w < 2^53,
\* or q = MinExponent and w < 2^52.
RECURSIVE Fit(_, _)
Fit(w, q) ==
    IF ~Less(w, TwoTo53)
    THEN Bind(Half(w), LAMBDA h : Fit(h, q + 1))
    ELSE IF Less(w, TwoTo52) /\ q > MinExponent
    THEN Bind(Twice(w), LAMBDA h : Fit(h, q - 1))
    ELSE [w |-> w, q |-> q]

\* w rounded to an integer, a tie going to the even one.
RoundHalfEven(w) ==
    LET i == IntDigits(w)
        k == Len(w.d)
        r == IF w.n >= 0 /\ w.n < k THEN w.d[w.n + 1] ELSE 0
        odd == i # <<>> /\ i[Len(i)] % 2 = 1
        up == w.n >= 0 /\ (r > 5 \/ (r = 5 /\ (k > w.n + 1 \/ odd)))
    IN IF up THEN (IF i = <<>> THEN <<1>> ELSE Succ(i)) ELSE i

\* The double nearest to the positive decimal x, as significand m (digits
\* of a natural number) and exponent q: m * 2^q.  x lies between 10^(n-1)
\* and 10^n, so its binary exponent is at least (n-1) * log2(10).
ToDouble(x) ==
    Bind((((x.n - 1) * 3321928) \div 1000000) - 52, LAMBDA q0 :
      Bind(IF q0 < MinExponent THEN MinExponent ELSE q0, LAMBDA q1 :
        Bind(Scaled(x, 0 - q1), LAMBDA w0 :
          Bind(Fit(w0, q1), LAMBDA f :
            Bind(RoundHalfEven(f.w), LAMBDA m :
              IF FromInt(m) = TwoTo53
              THEN [m |-> IntDigits(TwoTo52), q |-> f.q + 1]
              ELSE [m |-> m, q |-> f.q])))))

\* The decimals halfway from the double m * 2^q to its neighbours: what
\* lies between them is rounded to this double, and so are they when m is
\* even.  Below a power of two the doubles are half as far apart.
UpperBound(m, q) == Scaled(FromInt(Succ(IntDigits(Twice(FromInt(m))))), q - 1)
LowerBound(m, q) ==
    IF FromInt(m) = TwoTo52 /\ q > MinExponent
    THEN Scaled(FromInt(Pred(IntDigits(Scaled(FromInt(m), 2)))), q - 2)
    ELSE Scaled(FromInt(Pred(IntDigits(Twice(FromInt(m))))), q - 1)

Within(c, lo, hi, closed) ==
    IF closed THEN ~Less(c, lo) /\ ~Less(hi, c) ELSE Less(lo, c) /\ Less(c, hi)

\* v cut to k digits, and the next decimal of k digits above it.
Below(v, k) ==
    IF Len(v.d) =< k THEN v
    ELSE [d |-> SubSeq(v.d, 1, k - ZerosBefore(v.d, k)), n |-> v.n]
Above(v, k) ==
    LET s == Succ([i \in 1..k |-> IF i =< Len(v.d) THEN v.d[i] ELSE 0])
    IN [d |-> SubSeq(s, 1, Len(s) - ZerosBefore(s, Len(s))),
        n |-> v.n + (Len(s) - k)]

\* Whether v is nearer to Above(v, k) than to Below(v, k); halfway between
\* them, whether the k-th digit of Above(v, k) is the even one.
NearerAbove(v, k) ==
    LET r == IF k < Len(v.d) THEN v.d[k + 1] ELSE 0
    IN r > 5 \/ (r = 5 /\ (Len(v.d) > k + 1 \/ v.d[k] % 2 = 1))

\* Number::toString: the decimal of the fewest digits that is rounded to
\* the double v with bounds lo and hi; of two, the one nearer to v.
RECURSIVE ShortestFrom(_, _, _, _, _)
ShortestFrom(v, lo, hi, closed, k) ==
    Bind(<<Within(Below(v, k), lo, hi, closed),
           Within(Above(v, k), lo, hi, closed)>>, LAMBDA in :
      CASE Len(v.d) =< k -> v
        [] in[1] /\ in[2] -> IF NearerAbove(v, k) THEN Above(v, k) ELSE Below(v, k)
        [] in[1] -> Below(v, k)
        [] in[2] -> Above(v, k)
        [] OTHER -> ShortestFrom(v, lo, hi, closed, k + 1))

Shortest(m, q) ==
    Bind(<<Scaled(FromInt(m), q), LowerBound(m, q), UpperBound(m, q)>>,
         LAMBDA b : ShortestFrom(b[1], b[2], b[3], m[Len(m)] % 2 = 0, 1))

\* The number a decimal literal denotes: the double nearest to it, written
\* with the fewest digits.  That double is an infinity from 2^1024 - 2^970
\* on and zero up to 2^(-1075).
Rounded(neg, x) ==
    Bind(ToDouble(x), LAMBDA f :
      CASE f.m = <<>> -> JNum(0)
        [] f.q > MaxExponent -> Infinity(neg)
        [] OTHER -> Bind(Shortest(f.m, f.q), LAMBDA s : Dec(neg, s.d, s.n)))

\* The number with decimal digits d, n of them before the point.  Above
\* 10^309 it is an infinity and below 10^(-325) zero; a decimal of at most
\* 15 digits between 10^(-307) and 10^308 is itself the shortest decimal of
\* the double nearest to it.
Magnitude(neg, d, n) ==
    Bind(Dec(neg, d, n), LAMBDA x :
      CASE x.d = <<>> -> x
        [] x.n > 309 -> Infinity(neg)
        [] x.n < 0 - 324 -> JNum(0)
        [] Len(x.d) =< 15 /\ x.n >= 0 - 306 /\ x.n =< 308 -> x
        [] OTHER -> Rounded(neg, x))

\* The value of the exponent part at the head of s: e sign? digits; 0
\* when there is none.  An exponent of 10^9 or more is beyond every range
\* and is held as 10^9.
Exponent(s) ==
    IF s = <<>> \/ Head(s) \notin {"e", "E"} THEN 0
    ELSE Bind(Tail(s), LAMBDA s5 :
           LET esigned == s5 # <<>> /\ Head(s5) \in {"-", "+"}
           IN Bind(IF esigned THEN Tail(s5) ELSE s5, LAMBDA s6 :
                Bind(DigitsValue(SubSeq(s6, 1, DigitRun(s6))), LAMBDA x :
                  IF esigned /\ Head(s5) = "-" THEN 0 - x ELSE x)))

\* The decimal literal at the head of s2, of sign neg: digits [. digits] or
\* . digits, with an optional exponent; NaN when there is none.
Unsigned(neg, s2) ==
    Bind(DigitRun(s2), LAMBDA n :
      Bind(SubSeq(s2, n + 1, Len(s2)), LAMBDA s3 :
        Bind(IF s3 # <<>> /\ Head(s3) = "." THEN DigitRun(Tail(s3)) ELSE 0,
             LAMBDA m :
          IF n = 0 /\ m = 0 THEN NaN
          ELSE Bind(SubSeq(s2, 1, n) \o SubSeq(s3, 2, m + 1), LAMBDA d :
                 Bind(Exponent(IF s3 # <<>> /\ Head(s3) = "."
                               THEN SubSeq(s3, m + 2, Len(s3)) ELSE s3),
                      LAMBDA e :
                   Magnitude(neg, [k \in 1..Len(d) |-> DigitValue(d[k])],
                             n + e))))))

\* j zeros.
Zeros(j) == [k \in 1..j |-> "0"]

\* Number::toString of the positive decimal with digits d (characters) and
\* n digits before the point.
DecimalText(d, n) ==
    LET k == Len(d)
    IN CASE k =< n /\ n =< 21 -> d \o Zeros(n - k)
         [] 0 < n /\ n < k -> SubSeq(d, 1, n) \o <<".">> \o SubSeq(d, n + 1, k)
         [] 0 - 6 < n /\ n =< 0 -> <<"0", ".">> \o Zeros(0 - n) \o d
         [] OTHER ->
              (IF k = 1 THEN d
               ELSE <<d[1], ".">> \o SubSeq(d, 2, k))
              \o (IF n - 1 < 0 THEN <<"e-", ToString(1 - n)>>
                  ELSE <<"e+", ToString(n - 1)>>)

\* String(x) of a number.
NumberText(x) ==
    IF x.d = <<>> THEN <<"0">>
    ELSE (IF x.neg THEN <<"-">> ELSE <<>>)
         \o DecimalText([k \in 1..Len(x.d) |-> ToString(x.d[k])], x.n)

\* Text a value contributes to a template string; an array gives the texts
\* of its elements, none for null and undefined, separated by commas.
RECURSIVE ToText(_)
ToText(x) ==
    CASE x.t = "str" -> x.v
      [] x.t = "undefined" -> <<"undefined">>
      [] x.t = "null" -> <<"null">>
      [] x.t = "num" -> NumberText(x)
      [] x.t = "nan" -> <<"NaN">>
      [] x.t = "inf" -> IF x.neg THEN <<"-", "Infinity">> ELSE <<"Infinity">>
      [] x.t = "bool" -> IF x.v THEN <<"true">> ELSE <<"false">>
      [] x.t = "arr" ->
           IF x.a = <<>> THEN <<>>
           ELSE LET first == IF Head(x.a).t \in {"null", "undefined"} THEN <<>>
                             ELSE ToText(Head(x.a))
                IN IF Len(x.a) = 1 THEN first
                   ELSE first \o <<",">> \o ToText(JArr(Tail(x.a)))
      [] OTHER -> <<"[object Object]">>

\* parseFloat of a text: leading white space is skipped, then the longest
\* prefix that is a decimal literal is read: sign? Infinity, or sign?
\* followed by an unsigned literal.
ParseFloatText(s) ==
    Bind(TrimStart(Chars(s)), LAMBDA s1 :
      LET signed == s1 # <<>> /\ Head(s1) \in {"-", "+"}
          neg == signed /\ Head(s1) = "-"
      IN Bind(IF signed THEN Tail(s1) ELSE s1, LAMBDA s2 :
           IF Len(s2) >= 8 /\ SubSeq(s2, 1, 8) = Chars(<<"Infinity">>)
           THEN Infinity(neg)
           ELSE Unsigned(neg, s2)))

\* parseFloat(x): the text of x is parsed; a number comes back as it is,
\* its text being the decimal that denotes it.
ParseFloat(x) ==
    IF x.t \in {"num", "inf", "nan"} THEN x ELSE ParseFloatText(ToText(x))

\* Number.prototype.toFixed(f) of x, 0 =< f =< 100: the integer nearest to
\* x * 10^f, the larger one of two, written with f digits after the point;
\* x counts with the exact value of its double, and a number from 10^21 on
\* is written as String writes it.
ToFixed(x, f) ==
    IF x.t # "num" \/ x.n > 21 THEN ToText(x)
    ELSE Bind(IF x.d = <<>> THEN [d |-> <<>>, n |-> 0]
              ELSE Bind(ToDouble(x), LAMBDA b : Scaled(FromInt(b.m), b.q)),
              LAMBDA exact :
           Bind([d |-> exact.d, n |-> exact.n + f], LAMBDA w :
             Bind(IntDigits(w), LAMBDA i :
               Bind(IF w.n >= 0 /\ w.n < Len(w.d) /\ w.d[w.n + 1] >= 5
                    THEN (IF i = <<>> THEN <<1>> ELSE Succ(i)) ELSE i,
                    LAMBDA m :
                 Bind((IF Len(m) > f THEN <<>> ELSE Zeros(f + 1 - Len(m)))
                      \o [j \in 1..Len(m) |-> ToString(m[j])], LAMBDA t :
                   (IF x.neg THEN <<"-">> ELSE <<>>)
                   \o SubSeq(t, 1, Len(t) - f)
                   \o (IF f = 0 THEN <<>>
                       ELSE <<".">> \o SubSeq(t, Len(t) - f + 1, Len(t))))))))

\* a || b
OrElse(a, b) == IF Truthy(a) THEN a ELSE b

\* --------------------------------------------------------------- constants
BASE_URL == "http://localhost:8080/api/v1"
DefaultRetries == 3
BackoffUnitMs == 1000
StatusUnauthorized == 401
StatusNoContent == 204

UnauthorizedMessage == <<"Unauthorized", ". Please log in again.">>
UnknownServerError == <<"Unknown server error">>
StatusFallbackMessage(status) == <<"API call failed with status: ", ToString(status)>>

\* Message of the TypeError raised by reading a property of null.
NullReadMessage == <<"Cannot read properties of null (reading 'message')">>

\* ------------------------------------------------------------ environment
\* Texts a server may put in the message field of an error body.
ServerMessages == { <<>>, <<"Not found">>, <<"Unauthorized", " access">> }

\* Texts of the SyntaxError with which response.json() rejects; engines
\* that quote the offending text may repeat a body such as Unauthorized.
SyntaxMessages == { <<"Unexpected token">>,
                    <<"Unexpected token, ", "Unauthorized", " is not valid JSON">> }

\* Text of the TypeError with which fetch rejects on a transport failure.
NetworkMessages == { <<"Failed to fetch">> }

\* What response.json() does: it rejects with a SyntaxError or resolves
\* with a value.
ResponseBodies ==
    { [parse |-> "fail", msg |-> m] : m \in SyntaxMessages }
    \cup { [parse |-> "ok", value |-> v] :
             v \in {JNull, JObj([id |-> JNum(7)]), JObj([id |-> JNum(8)])}
                   \cup { JObj([message |-> JStr(m)]) : m \in ServerMessages }
                   \cup { JObj([message |-> JNum(5)]) } }

Statuses == {200, 201, StatusNoContent, StatusUnauthorized, 404, 500}

Responses ==
    { [kind |-> "network", error |-> [name |-> "TypeError", message |-> m]] :
        m \in NetworkMessages }
    \cup { [kind |-> "http", status |-> s, body |-> b] :
             s \in Statuses, b \in ResponseBodies }

NoResponse == [kind |-> "none"]

Tokens == {JNull, JStr(<<>>), JStr(<<"T">>), JNum(5)}
Methods == {"GET", "POST", "DELETE"}
Endpoints == {"/account-container"}
Bodies == {JNull, JObj([name |-> JStr(<<"Personal Finances">>)])}
RetryValues == (0 - 1)..MaxRetries

\* ------------------------------------------------------------- fetchCore
\* response.ok: status in the range 200-299.
ResponseOk(resp) == resp.status >= 200 /\ resp.status =< 299

Return(v, read) == [kind |-> "return", value |-> v, bodyRead |-> read]
Throw(e, read) == [kind |-> "throw", error |-> e, bodyRead |-> read]
NewError(msg) == [name |-> "Error", message |-> msg]

\* The value that the text JSON.stringify(x) denotes: NaN and the
\* infinities are written as null, as is an undefined element of an array;
\* a property that is undefined is left out.
RECURSIVE JsonValue(_)
JsonValue(x) ==
    CASE x.t \in {"nan", "inf"} -> JNull
      [] x.t = "arr" ->
           JArr([k \in 1..Len(x.a) |->
                   IF x.a[k].t = "undefined" THEN JNull ELSE JsonValue(x.a[k])])
      [] x.t = "obj" ->
           JObj([k \in {n \in DOMAIN x.f : x.f[n].t # "undefined"} |->
                   JsonValue(x.f[k])])
      [] OTHER -> x

\* JSON.stringify(body) for a truthy body, null otherwise.
RequestBody(body) == IF Truthy(body) THEN [json |-> JsonValue(body)] ELSE JNull

\* await response.json().catch(() => ({ message: 'Unknown server error' }))
ErrorData(resp) ==
    IF resp.body.parse = "ok" THEN resp.body.value
    ELSE JObj([message |-> JStr(UnknownServerError)])

\* Variant: one generic fallback text whenever no message was extracted.
ErrorMessage_Generic(resp) ==
    LET m == GetField(ErrorData(resp), "message")
    IN IF Truthy(m) THEN ToText(m) ELSE UnknownServerError

\* The message of new Error(errorData.message || `API call failed with
\* status: ${response.status}`): the text of the argument.
ErrorMessage(resp) ==
    LET m == GetField(ErrorData(resp), "message")
    IN IF Truthy(m) THEN ToText(m) ELSE StatusFallbackMessage(resp.status)

\* The error thrown for a non-ok status other than 401.
ApiFailure(resp) ==
    IF ErrorData(resp).t = "null"
    THEN [name |-> "TypeError", message |-> NullReadMessage]
    ELSE NewError(ErrorMessage(resp))

\* Variant: the 204/DELETE shortcut is taken before the ok test.
FetchCore_NoContentFirst(method, resp) ==
    IF resp.kind = "network" THEN Throw(resp.error, FALSE)
    ELSE IF resp.status = StatusUnauthorized
         THEN Throw(NewError(UnauthorizedMessage), FALSE)
    ELSE IF resp.status = StatusNoContent \/ method = "DELETE"
         THEN Return(JNull, FALSE)
    ELSE IF ~ResponseOk(resp) THEN Throw(ApiFailure(resp), TRUE)
    ELSE IF resp.body.parse = "ok" THEN Return(resp.body.value, TRUE)
    ELSE Throw([name |-> "SyntaxError", message |-> resp.body.msg], TRUE)

\* Variant: every ok response is treated as having no content.
FetchCore_NullOnSuccess(method, resp) ==
    IF resp.kind = "network" THEN Throw(resp.error, FALSE)
    ELSE IF resp.status = StatusUnauthorized
         THEN Throw(NewError(UnauthorizedMessage), FALSE)
    ELSE IF ~ResponseOk(resp) THEN Throw(ApiFailure(resp), TRUE)
    ELSE Return(JNull, FALSE)

\* fetchCore after fetch settled with resp (a rejection or a response).
FetchCore(method, resp) ==
    IF resp.kind = "network" THEN Throw(resp.error, FALSE)
    ELSE IF resp.status = StatusUnauthorized
         THEN Throw(NewError(UnauthorizedMessage), FALSE)
    ELSE IF ~ResponseOk(resp) THEN Throw(ApiFailure(resp), TRUE)
    ELSE IF resp.status = StatusNoContent \/ method = "DELETE"
         THEN Return(JNull, FALSE)
    ELSE IF resp.body.parse = "ok" THEN Return(resp.body.value, TRUE)
    ELSE Throw([name |-> "SyntaxError", message |-> resp.body.msg], TRUE)

\* -------------------------------------------------------------- fetchApi
Url(endpoint) == <<BASE_URL, endpoint>>

\* Variant: the Authorization header is never added.
Headers_NoAuthorization(tok) == [ContentType |-> "application/json"]

Headers(tok) ==
    IF Truthy(tok)
    THEN [ContentType |-> "application/json",
          Authorization |-> <<"Bearer ">> \o ToText(tok)]
    ELSE [ContentType |-> "application/json"]

\* The request fetchCore hands to fetch.
\* Variant: every attempt builds its headers from the session token of the
\* moment, not from the token the call was started with.
Request_FreshToken(c) ==
    [url |-> c.url, method |-> c.method, headers |-> Headers(shell.token),
     body |-> RequestBody(c.body)]

Request(c) ==
    [url |-> c.url, method |-> c.method, headers |-> c.headers,
     body |-> RequestBody(c.body)]

\* Variant: linear instead of exponential backoff.
Delay_Linear(i) == (2 * i) * BackoffUnitMs

\* Math.pow(2, i) * 1000
Delay(i) == (2 ^ i) * BackoffUnitMs

\* Variant: only the last attempt ends the loop.
Rethrow_LastAttemptOnly(i, retries, error) == i = retries - 1

\* Variant: a transport error ends the loop like an Unauthorized one.
Rethrow_TransportFatal(i, retries, error) ==
    \/ i = retries - 1
    \/ Includes(error.message, "Unauthorized")
    \/ Includes(error.message, "Failed to fetch")

\* i === retries - 1 || error.message.includes('Unauthorized')
Rethrow(i, retries, error) ==
    i = retries - 1 \/ Includes(error.message, "Unauthorized")

NoResult == [kind |-> "pending"]
NoError == [name |-> "none", message |-> <<>>]

\* Variant: the loop runs once more, `i <= retries`.
Iterate_OffByOne(c) ==
    IF c.i =< c.retries
    THEN [c EXCEPT !.pc = "fetching",
                   !.requests = Append(c.requests,
                                       [url |-> c.url, method |-> c.method,
                                        headers |-> c.headers,
                                        body |-> RequestBody(c.body)]),
                   !.response = NoResponse,
                   !.bodyRead = FALSE,
                   !.caught = NoError]
    ELSE [c EXCEPT !.pc = "resolved",
                   !.result = [kind |-> "value", value |-> JUndef]]

\* Loop head `i < retries` with the body up to the await of fetchCore;
\* when the loop is over the function returns undefined.
Iterate(c) ==
    IF c.i < c.retries
    THEN [c EXCEPT !.pc = "fetching",
                   !.requests = Append(c.requests, Request(c)),
                   !.response = NoResponse,
                   !.bodyRead = FALSE,
                   !.caught = NoError]
    ELSE [c EXCEPT !.pc = "resolved",
                   !.result = [kind |-> "value", value |-> JUndef]]

\* The fields of a call before fetchApi is invoked; served counts the
\* attempts the server answered with a success status, that is the requests
\* it is known to have carried out.
Idle ==
    [pc |-> "idle", url |-> <<>>, method |-> "GET", headers |-> <<>>,
     body |-> JNull, retries |-> 0, i |-> 0, requests |-> <<>>,
     response |-> NoResponse, bodyRead |-> FALSE, caught |-> NoError,
     waits |-> <<>>, delay |-> 0, elapsed |-> 0, result |-> NoResult,
     got401 |-> FALSE, served |-> 0]

\* fetchApi(endpoint, method, body, retries) called on the client of tok,
\* up to its first await.
StartCall(tok, endpoint, method, body, retries) ==
    Iterate([Idle EXCEPT !.pc = "start", !.url = Url(endpoint),
                         !.method = method, !.headers = Headers(tok),
                         !.body = body, !.retries = retries])

\* The body of a response before response.json() has settled.
BodyPending == [parse |-> "pending", msg |-> <<>>]

\* What fetch settles with in the exchange resp: the rejection, or the
\* response with its status, the body still to come.
HeadOf(resp) ==
    IF resp.kind = "network" THEN resp ELSE [resp EXCEPT !.body = BodyPending]

\* fetchCore awaits response.json() after fetch settled with head.
AwaitsBody(c, head) == head.kind = "http" /\ FetchCore(c.method, head).bodyRead

\* fetchCore ends on resp: the return or the catch block of fetchApi.
Outcome(c, resp) ==
    LET out == FetchCore(c.method, resp)
        seen == [c EXCEPT !.response = resp, !.bodyRead = out.bodyRead,
                          !.caught = IF out.kind = "throw" THEN out.error
                                     ELSE NoError]
    IN IF out.kind = "return"
       THEN [seen EXCEPT !.pc = "resolved",
                         !.result = [kind |-> "value", value |-> out.value]]
       ELSE IF Rethrow(c.i, c.retries, out.error)
       THEN [seen EXCEPT !.pc = "rejected",
                         !.result = [kind |-> "error", error |-> out.error]]
       ELSE [seen EXCEPT !.pc = "waiting", !.delay = Delay(c.i), !.elapsed = 0]

\* The fetch of attempt i settled with head: fetchCore runs up to its await
\* of response.json(), or to its end when it does not read the body.
Respond(c, head) ==
    LET seen == [c EXCEPT !.response = head,
                          !.got401 = c.got401 \/
                              (head.kind = "http" /\ head.status = StatusUnauthorized),
                          !.served = c.served +
                              (IF head.kind = "http" /\ ResponseOk(head)
                               THEN 1 ELSE 0)]
    IN IF AwaitsBody(c, head) THEN [seen EXCEPT !.pc = "reading"]
       ELSE Outcome(seen, head)

\* response.json() settled as body: rest of fetchCore.
ReadBody(c, body) == Outcome(c, [c.response EXCEPT !.body = body])

\* The backoff timer fired: next iteration of the loop.
Resume(c) ==
    Iterate([c EXCEPT !.i = c.i + 1,
                      !.waits = Append(c.waits, [delay |-> c.delay, elapsed |-> c.elapsed])])

\* ------------------------------------------------------------------- App
\* The TypeError of reading a property of null or undefined.
PropertyReadError(x, field) ==
    [name |-> "TypeError",
     message |-> <<"Cannot read properties of ", x.t, " (reading '", field, "')">>]

Readable(x) == x.t \notin {"null", "undefined"}

\* What the browser's storage holds when the page is loaded: the token and
\* username of an earlier session.  App never reads or writes the storage,
\* so an empty one gives the same behaviours.
StorageValues ==
    { [token |-> JStr(<<"T">>), username |-> JStr(<<"ann">>)] }

\* useState(null), useState(null), useState('auth'): the state of App when
\* the page is loaded with store in the browser's storage.
InitialShell(store) == [token |-> JNull, user |-> JNull, view |-> "auth"]

\* Variant: the submitted username is not stored.
HandleAuthSuccess_NoUser(sh, username, jwtToken) ==
    [sh EXCEPT !.token = jwtToken, !.view = "accountContainer"]

\* App.handleAuthSuccess
HandleAuthSuccess(sh, username, jwtToken) ==
    [sh EXCEPT !.user = JStr(username), !.token = jwtToken,
               !.view = "accountContainer"]

\* Variant: logout forgets the token but keeps the user.
HandleLogout_KeepUser(sh) == [sh EXCEPT !.token = JNull, !.view = "auth"]

\* App.handleLogout
HandleLogout(sh) == [sh EXCEPT !.token = JNull, !.user = JNull, !.view = "auth"]

\* App.renderContent: the form that is mounted.
Rendered(sh) ==
    IF ~Truthy(sh.token) THEN "AuthForm"
    ELSE IF sh.view = "transaction" THEN "TransactionForm"
    ELSE "AccountContainerForm"

\* The component whose handler awaits a call.
OwnerForm(owner) ==
    CASE owner \in {"login", "register"} -> "AuthForm"
      [] owner = "container" -> "AccountContainerForm"
      [] OTHER -> "TransactionForm"

\* -------------------------------------------------------------- AuthForm
AuthInitial ==
    [isLogin |-> TRUE, username |-> <<>>, password |-> <<>>,
     message |-> <<>>, isLoading |-> FALSE]

AuthEndpoint(isLogin) == IF isLogin THEN "/user/login" ELSE "/user"

AuthBody(a) ==
    JObj([username |-> JStr(a.username), password |-> JStr(a.password)])

\* Variant: the submit button stays enabled while a submission is pending.
AuthSubmitDisabled_Never(a) == FALSE

\* disabled= of the submit button.
AuthSubmitDisabled(a) == a.isLoading

\* A call in flight: the handler that awaits it, whether the component of
\* the handler was unmounted since, the values the handler closed over and
\* the fetchApi call.
InFlight(owner, env, c) ==
    [owner |-> owner, orphan |-> FALSE, env |-> env, fetch |-> c]

\* error.message || fallback
MessageOr(error, fallback) ==
    IF error.message # <<>> THEN error.message ELSE fallback

\* AuthForm.handleSubmit after the await, for a login: the new state of the
\* form and of the shell.
LoginSettled(a, sh, env, c) ==
    IF c.pc = "rejected"
    THEN [auth |-> [a EXCEPT !.message = MessageOr(c.result.error,
                                 <<"An error occurred during authentication.">>),
                             !.isLoading = FALSE],
          shell |-> sh]
    ELSE IF ~Readable(c.result.value)
    THEN [auth |-> [a EXCEPT !.message =
                                 PropertyReadError(c.result.value, "token").message,
                             !.isLoading = FALSE],
          shell |-> sh]
    ELSE [auth |-> [a EXCEPT !.isLoading = FALSE],
          shell |-> HandleAuthSuccess(sh, env.username,
                                      GetField(c.result.value, "token"))]

\* Variant: the form goes back to the login tab after every registration
\* request, failed ones included.
RegisterSettled_AlwaysSwitch(a, env, c) ==
    [a EXCEPT !.isLogin = TRUE, !.isLoading = FALSE,
              !.message = IF c.pc = "rejected" THEN c.result.error.message
                          ELSE <<"created">>]

\* AuthForm.handleSubmit after the await, for a registration.
RegisterSettled(a, env, c) ==
    IF c.pc = "rejected"
    THEN [a EXCEPT !.message = MessageOr(c.result.error,
                       <<"An error occurred during authentication.">>),
                   !.isLoading = FALSE]
    ELSE IF ~Readable(c.result.value)
    THEN [a EXCEPT !.message =
                       PropertyReadError(c.result.value, "username").message,
                   !.isLoading = FALSE]
    ELSE [a EXCEPT !.message = <<"User '">>
                       \o ToText(GetField(c.result.value, "username"))
                       \o <<"' created successfully! Please log in.">>,
                   !.isLogin = TRUE,
                   !.isLoading = FALSE]

\* -------------------------------------------------- AccountContainerForm
ACCOUNT_TYPES == <<"CHECKING", "SAVINGS", "CASH">>
STATIC_CURRENCIES == <<"EUR", "USD", "HUF">>

\* newAccount(), with Date.now() read as t.
NewAccount(t) ==
    [id |-> t, name |-> <<>>, accountType |-> ACCOUNT_TYPES[1],
     currency |-> STATIC_CURRENCIES[1], initialBalance |-> JNum(0)]

\* The state of the form when it is mounted at time t.
ContainerInitial(t) ==
    [containerName |-> <<>>, accounts |-> <<NewAccount(t)>>,
     message |-> <<>>, isLoading |-> FALSE]

\* accounts.filter(acc => acc.name.trim() !== '')
IsValidAccount(acc) == Trim(acc.name) # <<>>
ValidAccounts(accounts) == SelectSeq(accounts, IsValidAccount)

\* Variant: the whole form entry is sent, its local id included.
SubaccountPayload_WithId(acc) ==
    JObj([id |-> JNum(acc.id),
          name |-> JStr(Trim(acc.name)),
          accountType |-> JStr(<<acc.accountType>>),
          currency |-> JStr(<<acc.currency>>),
          initialBalance |-> OrElse(ParseFloat(acc.initialBalance), JNum(0))])

\* One element of subaccountsPayload.
SubaccountPayload(acc) ==
    JObj([name |-> JStr(Trim(acc.name)),
          accountType |-> JStr(<<acc.accountType>>),
          currency |-> JStr(<<acc.currency>>),
          initialBalance |-> OrElse(ParseFloat(acc.initialBalance), JNum(0))])

\* The body of POST /account-container built by handleSubmit.
ContainerBody(f) ==
    LET valid == ValidAccounts(f.accounts)
    IN JObj([name |-> JStr(Trim(f.containerName)),
             subaccounts |->
                 JArr([k \in 1..Len(valid) |-> SubaccountPayload(valid[k])])])

\* Variant: the name is tested as the button tests it, untrimmed.
ContainerValidation_Untrimmed(f) ==
    IF f.containerName = <<>>
    THEN <<"Please enter an Account Container Name.">>
    ELSE IF Len(SelectSeq(f.accounts, LAMBDA acc : Trim(acc.name) # <<>>)) = 0
    THEN <<"Please create at least one Account.">>
    ELSE <<>>

\* The validation message of handleSubmit, empty when the form passes.
ContainerValidation(f) ==
    IF Trim(f.containerName) = <<>>
    THEN <<"Please enter an Account Container Name.">>
    ELSE IF Len(ValidAccounts(f.accounts)) = 0
    THEN <<"Please create at least one Account.">>
    ELSE <<>>

\* disabled= of the submit button.
ContainerSubmitDisabled(f) ==
    f.isLoading \/ f.containerName = <<>> \/ Len(ValidAccounts(f.accounts)) = 0

\* Variant: the form is reset after every submission, failed ones included.
ContainerSettled_ResetAlways(f, c, t) ==
    [f EXCEPT !.message = IF c.pc = "rejected" THEN c.result.error.message
                          ELSE <<"created">>,
              !.containerName = <<>>,
              !.accounts = <<NewAccount(t)>>,
              !.isLoading = FALSE]

\* x.length: arrays and strings have one, an object may have a property of
\* that name.
Length(x) ==
    CASE x.t = "arr" -> JNum(Len(x.a))
      [] x.t = "str" -> JNum(TextLength(x.v))
      [] OTHER -> GetField(x, "length")

\* AccountContainerForm.handleSubmit after the await; t is Date.now().
ContainerSettled(f, c, t) ==
    IF c.pc = "rejected"
    THEN [f EXCEPT !.message = MessageOr(c.result.error,
                       <<"Failed to create account container.">>),
                   !.isLoading = FALSE]
    ELSE LET r == c.result.value
             subs == GetField(r, "subaccounts")
         IN IF ~Readable(r)
            THEN [f EXCEPT !.message = PropertyReadError(r, "name").message,
                           !.isLoading = FALSE]
            ELSE IF ~Readable(subs)
            THEN [f EXCEPT !.message = PropertyReadError(subs, "length").message,
                           !.isLoading = FALSE]
            ELSE [f EXCEPT
                    !.message = <<"Account Container '">>
                        \o ToText(GetField(r, "name"))
                        \o <<"' created successfully with ">>
                        \o ToText(Length(subs))
                        \o <<" accounts!">>,
                    !.containerName = <<>>,
                    !.accounts = <<NewAccount(t)>>,
                    !.isLoading = FALSE]

\* ------------------------------------------------------- TransactionForm
TRANSACTION_TYPES == <<"EXPENSE", "INCOME", "TRANSFER">>

TxnInitial ==
    [containers |-> <<>>, categories |-> <<>>, accounts |-> <<>>,
     description |-> <<>>, amount |-> <<>>, latitude |-> <<>>,
     longitude |-> <<>>, transactionType |-> TRANSACTION_TYPES[1],
     selectedContainerId |-> <<>>, selectedAccountId |-> <<>>,
     selectedCategoryId |-> <<>>, selectedCurrency |-> STATIC_CURRENCIES[1],
     message |-> <<>>, isLoading |-> FALSE, isDataLoading |-> TRUE]

\* Variant: the category is not part of the validation.
TxnInvalid_NoCategory(f) ==
    \/ Trim(f.description) = <<>>
    \/ ParseFloat(JStr(f.amount)) = NaN
    \/ f.selectedAccountId = <<>>

\* !description.trim() || isNaN(parsedAmount) || !selectedAccountId ||
\* !selectedCategoryId
TxnInvalid(f) ==
    \/ Trim(f.description) = <<>>
    \/ ParseFloat(JStr(f.amount)) = NaN
    \/ f.selectedAccountId = <<>>
    \/ f.selectedCategoryId = <<>>

\* isSubmitDisabled
TxnSubmitDisabled(f) ==
    \/ f.isLoading
    \/ f.isDataLoading
    \/ Trim(f.description) = <<>>
    \/ ParseFloat(JStr(f.amount)) = NaN
    \/ f.selectedAccountId = <<>>
    \/ f.selectedCategoryId = <<>>

\* The body of POST /transaction; t is the time of new Date().
TxnBody(f, t) ==
    JObj([description |-> JStr(Trim(f.description)),
          amount |-> ParseFloat(JStr(f.amount)),
          latitude |-> OrElse(ParseFloat(JStr(f.latitude)), JNum(0)),
          longitude |-> OrElse(ParseFloat(JStr(f.longitude)), JNum(0)),
          transactionTime |-> JStr(<<"ISO ", ToString(t)>>),
          transactionType |-> JStr(<<f.transactionType>>),
          account |-> JObj([id |-> JStr(f.selectedAccountId)]),
          category |-> JObj([id |-> JStr(f.selectedCategoryId)])])

\* TransactionForm.handleSubmit after the await; env holds parsedAmount and
\* selectedCurrency of the render that submitted.
TxnSettled(f, env, c) ==
    IF c.pc = "rejected"
    THEN [f EXCEPT !.message = MessageOr(c.result.error,
                       <<"Failed to create transaction.">>),
                   !.isLoading = FALSE]
    ELSE IF ~Readable(c.result.value)
    THEN [f EXCEPT !.message =
                       PropertyReadError(c.result.value, "description").message,
                   !.isLoading = FALSE]
    ELSE [f EXCEPT !.message = <<"Transaction '">>
                       \o ToText(GetField(c.result.value, "description"))
                       \o <<"' of ">> \o ToText(env.parsedAmount)
                       \o <<" ", env.selectedCurrency,
                            " created successfully!">>,
                   !.description = <<>>, !.amount = <<>>,
                   !.latitude = <<>>, !.longitude = <<>>,
                   !.isLoading = FALSE]

\* result.map(x => ...) can be evaluated: result is an array of values
\* whose properties can be read.
Mappable(r) == r.t = "arr" /\ \A k \in 1..Len(r.a) : Readable(r.a[k])

\* The TypeError of result.map(...) when it cannot be evaluated; result is
\* the name of the variable in the source: containerResult, categoryResult
\* or accountResult.
MapError(r, result) ==
    IF ~Readable(r) THEN PropertyReadError(r, "map")
    ELSE IF r.t # "arr"
    THEN [name |-> "TypeError",
          message |-> <<result, ".map is not a function">>]
    ELSE PropertyReadError(
             r.a[CHOOSE k \in 1..Len(r.a) :
                    /\ ~Readable(r.a[k])
                    /\ \A j \in 1..(k - 1) : Readable(r.a[j])], "id")

\* result.map(c => ({ id: c.id, name: c.name }))
MapIdName(r) ==
    [k \in 1..Len(r.a) |->
        [id |-> GetField(r.a[k], "id"), name |-> GetField(r.a[k], "name")]]

\* result.map(a => ({ id: a.id, name: `${a.name} (${a.currency})` }))
MapAccounts(r) ==
    [k \in 1..Len(r.a) |->
        [id |-> GetField(r.a[k], "id"),
         name |-> ToText(GetField(r.a[k], "name")) \o <<" (">>
                  \o ToText(GetField(r.a[k], "currency")) \o <<")">>]]

\* The error caught by a loader: the rejection of fetchApi or the
\* TypeError of the map.
LoadError(c, result) ==
    IF c.pc = "rejected" THEN c.result.error
    ELSE MapError(c.result.value, result)

LoadFailed(c) == c.pc = "rejected" \/ ~Mappable(c.result.value)

\* loadInitialData up to its first await.
LoadInitialDataStart(f) == [f EXCEPT !.isDataLoading = TRUE, !.message = <<>>]

\* Variant: a failed reload empties the container list.
ContainersSettled_ClearOnFail(f, c) ==
    IF c.pc = "rejected" \/ ~Mappable(c.result.value)
    THEN [f EXCEPT !.message = <<"Failed to load necessary data: ">>,
                   !.containers = <<>>,
                   !.isDataLoading = FALSE]
    ELSE [f EXCEPT !.containers = MapIdName(c.result.value)]

\* loadInitialData after GET /account-container settled; when it did not
\* fail the function goes on to GET /category.
ContainersSettled(f, c) ==
    IF LoadFailed(c)
    THEN [f EXCEPT !.message = <<"Failed to load necessary data: ">>
                                 \o LoadError(c, "containerResult").message,
                   !.isDataLoading = FALSE]
    ELSE [f EXCEPT !.containers = MapIdName(c.result.value)]

\* loadInitialData after GET /category settled.
CategoriesSettled(f, c) ==
    IF LoadFailed(c)
    THEN [f EXCEPT !.message = <<"Failed to load necessary data: ">>
                                 \o LoadError(c, "categoryResult").message,
                   !.isDataLoading = FALSE]
    ELSE [f EXCEPT !.categories = MapIdName(c.result.value),
                   !.isDataLoading = FALSE]

\* loadAccounts after its GET settled.
AccountsSettled(f, c) ==
    IF LoadFailed(c)
    THEN [f EXCEPT !.message = <<"Failed to load accounts: ">>
                                 \o LoadError(c, "accountResult").message]
    ELSE [f EXCEPT !.accounts = MapAccounts(c.result.value)]

\* String(option.id || option.value || option): the value of an option of
\* a selector.
OptionValue(o) == IF Truthy(o.id) THEN ToText(o.id) ELSE <<"[object Object]">>

\* ----------------------------------------------------------------- actions
\* An event of the application, recorded in last.
Ev(name) ==
    [ev |-> name, owner |-> "none", orphan |-> FALSE, env |-> <<>>,
     fetch |-> Idle]

\* The application before anything happened, with store in the storage.
AppStart(store) ==
    /\ storage = store
    /\ shell = InitialShell(store)
    /\ auth = AuthInitial
    /\ cform = ContainerInitial(0)
    /\ tform = TxnInitial
    /\ calls = <<>>
    /\ last = Ev("start")
    /\ now = 1

Init ==
    /\ token \in Tokens
    /\ call = Idle
    /\ AppStart([token |-> JNull, username |-> JNull])

\* A caller invokes fetchApi on the client.
CallFetchApi ==
    /\ call.pc = "idle"
    /\ \E e \in Endpoints, m \in Methods, b \in Bodies,
          r \in RetryValues \cup {DefaultRetries} :
         call' = StartCall(token, e, m, b, r)
    /\ UNCHANGED token
    /\ UNCHANGED appVars

\* The transport settles the pending fetch.
FetchSettles ==
    /\ call.pc = "fetching"
    /\ \E resp \in Responses : call' = Respond(call, HeadOf(resp))
    /\ UNCHANGED token
    /\ UNCHANGED appVars

\* The body of the response arrives: response.json() settles.
BodySettles ==
    /\ call.pc = "reading"
    /\ \E resp \in Responses :
         /\ HeadOf(resp) = call.response
         /\ call' = ReadBody(call, resp.body)
    /\ UNCHANGED token
    /\ UNCHANGED appVars

\* Time passes while the backoff timer is pending.
Tick ==
    /\ call.pc = "waiting"
    /\ call.elapsed < call.delay
    /\ call' = [call EXCEPT !.elapsed = call.elapsed + BackoffUnitMs \div 2]
    /\ UNCHANGED token
    /\ UNCHANGED appVars

\* setTimeout calls back once the delay has elapsed.
TimerFires ==
    /\ call.pc = "waiting"
    /\ call.elapsed >= call.delay
    /\ call' = Resume(call)
    /\ UNCHANGED token
    /\ UNCHANGED appVars

Next == CallFetchApi \/ FetchSettles \/ BodySettles \/ Tick \/ TimerFires

Spec == Init /\ [][Next]_vars

\* The client with a transport whose requests all return and timers that
\* all fire.
SpecLive ==
    /\ Init /\ [][Next]_vars
    /\ WF_vars(FetchSettles) /\ WF_vars(BodySettles)
    /\ WF_vars(Tick) /\ WF_vars(TimerFires)

\* ------------------------------------------------------ application
\* Responses the server gives in the application-level specifications.
LoginResult(u, t) == JObj([username |-> JStr(u), token |-> JStr(t)])
ContainerResult ==
    JObj([name |-> JStr(<<"P">>),
          subaccounts |-> JArr(<<JObj([name |-> JStr(<<"C">>)])>>)])
ListResult ==
    JArr(<<JObj([id |-> JStr(<<"i1">>), name |-> JStr(<<"Main">>),
                 currency |-> JStr(<<"EUR">>)])>>)

AppFailures ==
    { [kind |-> "network",
       error |-> [name |-> "TypeError", message |-> <<"Failed to fetch">>]],
      [kind |-> "http", status |-> StatusUnauthorized,
       body |-> [parse |-> "fail", msg |-> <<"Unexpected token">>]],
      [kind |-> "http", status |-> 404,
       body |-> [parse |-> "ok",
                 value |-> JObj([message |-> JStr(<<"Unauthorized", " access">>)])]] }

AppResponses ==
    AppFailures
    \cup { [kind |-> "http", status |-> 200, body |-> [parse |-> "ok", value |-> v]] :
             v \in {LoginResult(<<"Ann">>, <<"T">>), JNull, ContainerResult,
                    ListResult} }

AppUsernames == {<<"ann">>}

RemoveAt(q, k) == SubSeq(q, 1, k - 1) \o SubSeq(q, k + 1, Len(q))

\* The forms after the shell went from shOld to shNew: the form that is
\* no longer rendered is unmounted, so the calls its handlers await are
\* orphaned, and the form rendered instead starts from its initial state;
\* a TransactionForm runs loadInitialData when it is mounted.
Transition(shOld, shNew, a, cf, tf, cs, t) ==
    IF Rendered(shOld) = Rendered(shNew)
    THEN [auth |-> a, cform |-> cf, tform |-> tf, calls |-> cs]
    ELSE LET kept == [k \in 1..Len(cs) |->
                        IF OwnerForm(cs[k].owner) = Rendered(shOld)
                        THEN [cs[k] EXCEPT !.orphan = TRUE] ELSE cs[k]]
         IN [auth |-> AuthInitial,
             cform |-> IF Rendered(shNew) = "AccountContainerForm"
                       THEN ContainerInitial(t) ELSE ContainerInitial(0),
             tform |-> TxnInitial,
             calls |-> IF Rendered(shNew) = "TransactionForm"
                       THEN Append(kept,
                              InFlight("loadContainers", [token |-> shNew.token],
                                  StartCall(shNew.token, "/account-container",
                                            "GET", JNull, DefaultRetries)))
                       ELSE kept]

\* A change of the shell's state by one of its handlers.
ShellBecomes(shNew, name) ==
    LET tr == Transition(shell, shNew, auth, cform, tform, calls, now)
    IN /\ Len(tr.calls) =< MaxCalls
       /\ shell' = shNew
       /\ auth' = tr.auth
       /\ cform' = tr.cform
       /\ tform' = tr.tform
       /\ calls' = tr.calls
       /\ last' = Ev(name)
       /\ UNCHANGED <<storage, now, clientVars>>

\* -------- the shell
\* The Logout button of the navigation bar.
Logout ==
    /\ Truthy(shell.token)
    /\ ShellBecomes(HandleLogout(shell), "logout")

\* The Containers and Txn buttons of the navigation bar.
NavClick ==
    /\ Truthy(shell.token)
    /\ \E v \in {"accountContainer", "transaction"} :
         ShellBecomes([shell EXCEPT !.view = v], "other")

\* onCompletion of the form that is rendered.
GoToOtherForm ==
    /\ Truthy(shell.token)
    /\ ShellBecomes([shell EXCEPT !.view =
                        IF Rendered(shell) = "AccountContainerForm"
                        THEN "transaction" ELSE "accountContainer"], "other")

\* The page is loaded again: every component starts over and the calls in
\* flight are gone with the page.
Reload ==
    /\ last.ev # "start"
    /\ shell' = InitialShell(storage)
    /\ auth' = AuthInitial
    /\ cform' = ContainerInitial(0)
    /\ tform' = TxnInitial
    /\ calls' = <<>>
    /\ last' = Ev("start")
    /\ UNCHANGED <<storage, now, clientVars>>

\* -------- what the user enters into the forms
\* Texts typed into a name or description field: nothing, white space alone
\* (a space and an ideographic space), and an e with acute accent followed
\* by a zero-width space, which is no white space, between a no-break space
\* and a tab.
FormTexts ==
    {<<>>, <<" ", "\\u3000">>, <<"\\u00a0", "\\u00e9", "\\u200b", "\t">>}

\* Texts typed into the Initial Balance field, and the options picked in
\* the selectors of account type, transaction type and currency.
BalanceInputs == {<<"1", ".", "2", "5", "e", "1">>, <<"x">>}
AccountTypeChoices == {ACCOUNT_TYPES[1], ACCOUNT_TYPES[3]}
TypeChoices == {TRANSACTION_TYPES[1], TRANSACTION_TYPES[3]}
CurrencyChoices == {STATIC_CURRENCIES[1], STATIC_CURRENCIES[3]}

\* The positions the browser reports, position.coords of each: 47.4979
\* north, 19.0402 west.
Positions ==
    {[latitude |-> Dec(FALSE, <<4, 7, 4, 9, 7, 9>>, 2),
      longitude |-> Dec(TRUE, <<1, 9, 0, 4, 0, 2>>, 2)]}

\* position.coords.latitude.toFixed(6) and position.coords.longitude
\* .toFixed(6) of those positions.
Fixes ==
    {[latitude |-> ToFixed(p.latitude, 6), longitude |-> ToFixed(p.longitude, 6)] :
        p \in Positions}

\* error.message of the errors getCurrentPosition reports.
GeolocationErrors == {<<"User denied Geolocation">>}

\* Texts in the Latitude and Longitude fields: nothing, or what the
\* location button would fill in.
Latitudes == {<<>>} \cup {fix.latitude : fix \in Fixes}
Longitudes == {<<>>} \cup {fix.longitude : fix \in Fixes}

\* -------- AuthForm
AppPasswords == {<<"pw">>}

AuthSetPassword ==
    /\ Rendered(shell) = "AuthForm"
    /\ \E p \in AppPasswords : auth' = [auth EXCEPT !.password = p]
    /\ last' = Ev("other")
    /\ UNCHANGED <<shell, storage, cform, tform, calls, now, clientVars>>

AuthSetUsername ==
    /\ Rendered(shell) = "AuthForm"
    /\ \E u \in AppUsernames : auth' = [auth EXCEPT !.username = u]
    /\ last' = Ev("other")
    /\ UNCHANGED <<shell, storage, cform, tform, calls, now, clientVars>>

\* The Login and Register tabs.
AuthTab ==
    /\ Rendered(shell) = "AuthForm"
    /\ \E b \in BOOLEAN : auth' = [auth EXCEPT !.isLogin = b, !.message = <<>>]
    /\ last' = Ev("tab")
    /\ UNCHANGED <<shell, storage, cform, tform, calls, now, clientVars>>

\* AuthForm.handleSubmit up to the await, from the submit button.
AuthSubmit ==
    /\ Rendered(shell) = "AuthForm"
    /\ ~AuthSubmitDisabled(auth)
    /\ auth' = [auth EXCEPT !.message = <<>>, !.isLoading = TRUE]
    /\ calls' = Append(calls,
           InFlight(IF auth.isLogin THEN "login" ELSE "register",
                    [username |-> auth.username],
                    StartCall(JNull, AuthEndpoint(auth.isLogin), "POST",
                              AuthBody(auth), DefaultRetries)))
    /\ last' = Ev("other")
    /\ UNCHANGED <<shell, storage, cform, tform, now, clientVars>>

\* -------- AccountContainerForm
ContainerNames == {<<"P">>}
AccountNames == {<<"C">>}

ContainerSetName ==
    /\ Rendered(shell) = "AccountContainerForm"
    /\ \E n \in ContainerNames : cform' = [cform EXCEPT !.containerName = n]
    /\ last' = Ev("other")
    /\ UNCHANGED <<shell, storage, auth, tform, calls, now, clientVars>>

\* updateAccount(id, field, value)
UpdateAccount(accounts, id, field, value) ==
    [k \in 1..Len(accounts) |->
        IF accounts[k].id = id THEN [accounts[k] EXCEPT ![field] = value]
        ELSE accounts[k]]

ContainerSetAccountName ==
    /\ Rendered(shell) = "AccountContainerForm"
    /\ \E k \in 1..Len(cform.accounts), n \in AccountNames :
         cform' = [cform EXCEPT !.accounts =
                      UpdateAccount(cform.accounts, cform.accounts[k].id, "name", n)]
    /\ last' = Ev("updateAccount")
    /\ UNCHANGED <<shell, storage, auth, tform, calls, now, clientVars>>

\* The container name typed by the user of the form on its own.
ContainerTypeName ==
    /\ Rendered(shell) = "AccountContainerForm"
    /\ \E n \in FormTexts : cform' = [cform EXCEPT !.containerName = n]
    /\ last' = Ev("other")
    /\ UNCHANGED <<shell, storage, auth, tform, calls, now, clientVars>>

\* A field of one of the accounts is edited with one of values:
\* updateAccount(account.id, field, value).
ContainerEditsAccount(field, values) ==
    /\ Rendered(shell) = "AccountContainerForm"
    /\ \E k \in 1..Len(cform.accounts), v \in values :
         cform' = [cform EXCEPT !.accounts =
                      UpdateAccount(cform.accounts, cform.accounts[k].id, field, v)]
    /\ last' = Ev("updateAccount")
    /\ UNCHANGED <<shell, storage, auth, tform, calls, now, clientVars>>

ContainerTypeAccountName == ContainerEditsAccount("name", FormTexts)

ContainerSetAccountType == ContainerEditsAccount("accountType", AccountTypeChoices)

ContainerSetAccountCurrency == ContainerEditsAccount("currency", CurrencyChoices)

ContainerSetAccountBalance ==
    ContainerEditsAccount("initialBalance", {JStr(b) : b \in BalanceInputs})

\* addAccount
AddAccount ==
    /\ Rendered(shell) = "AccountContainerForm"
    /\ Len(cform.accounts) < MaxAccounts
    /\ cform' = [cform EXCEPT !.accounts = Append(cform.accounts, NewAccount(now))]
    /\ last' = Ev("addAccount")
    /\ UNCHANGED <<shell, storage, auth, tform, calls, now, clientVars>>

\* accounts.filter(acc => acc.id !== id)
WithoutId(accounts, id) == SelectSeq(accounts, LAMBDA acc : acc.id # id)

\* removeAccount(account.id), from the button shown while the form has more
\* than one account.
RemoveAccount ==
    /\ Rendered(shell) = "AccountContainerForm"
    /\ Len(cform.accounts) > 1
    /\ \E k \in 1..Len(cform.accounts) :
         cform' = [cform EXCEPT !.accounts =
                      WithoutId(cform.accounts, cform.accounts[k].id)]
    /\ last' = Ev("removeAccount")
    /\ UNCHANGED <<shell, storage, auth, tform, calls, now, clientVars>>

\* A millisecond passes on the clock read by Date.now().
ClockTick ==
    /\ now < MaxClock
    /\ now' = now + 1
    /\ last' = Ev("other")
    /\ UNCHANGED <<shell, storage, auth, cform, tform, calls, clientVars>>

\* AccountContainerForm.handleSubmit up to its return or its await.
ContainerHandleSubmit ==
    /\ IF ContainerValidation(cform) # <<>>
       THEN /\ cform' = [cform EXCEPT !.message = ContainerValidation(cform),
                                      !.isLoading = FALSE]
            /\ calls' = calls
            /\ last' = Ev("containerSubmit")
       ELSE /\ cform' = [cform EXCEPT !.message = <<>>, !.isLoading = TRUE]
            /\ calls' = Append(calls,
                   InFlight("container", [token |-> shell.token],
                            StartCall(shell.token, "/account-container", "POST",
                                      ContainerBody(cform), DefaultRetries)))
            /\ last' = Ev("containerSubmit")
    /\ UNCHANGED <<shell, storage, auth, tform, now, clientVars>>

\* The submit button of the form.
ContainerSubmit ==
    /\ Rendered(shell) = "AccountContainerForm"
    /\ ~ContainerSubmitDisabled(cform)
    /\ ContainerHandleSubmit

\* -------- TransactionForm
Descriptions == FormTexts
Amounts == {<<>>, <<"x">>, <<"\\u00a0", "1", ".", "5">>}

TxnSetDescription ==
    /\ Rendered(shell) = "TransactionForm"
    /\ \E d \in Descriptions : tform' = [tform EXCEPT !.description = d]
    /\ last' = Ev("other")
    /\ UNCHANGED <<shell, storage, auth, cform, calls, now, clientVars>>

TxnSetAmount ==
    /\ Rendered(shell) = "TransactionForm"
    /\ \E a \in Amounts : tform' = [tform EXCEPT !.amount = a]
    /\ last' = Ev("other")
    /\ UNCHANGED <<shell, storage, auth, cform, calls, now, clientVars>>

TxnSetLatitude ==
    /\ Rendered(shell) = "TransactionForm"
    /\ \E v \in Latitudes : tform' = [tform EXCEPT !.latitude = v]
    /\ last' = Ev("other")
    /\ UNCHANGED <<shell, storage, auth, cform, calls, now, clientVars>>

TxnSetLongitude ==
    /\ Rendered(shell) = "TransactionForm"
    /\ \E v \in Longitudes : tform' = [tform EXCEPT !.longitude = v]
    /\ last' = Ev("other")
    /\ UNCHANGED <<shell, storage, auth, cform, calls, now, clientVars>>

TxnSetTransactionType ==
    /\ Rendered(shell) = "TransactionForm"
    /\ \E v \in TypeChoices : tform' = [tform EXCEPT !.transactionType = v]
    /\ last' = Ev("other")
    /\ UNCHANGED <<shell, storage, auth, cform, calls, now, clientVars>>

TxnSetSelectedCurrency ==
    /\ Rendered(shell) = "TransactionForm"
    /\ \E v \in CurrencyChoices : tform' = [tform EXCEPT !.selectedCurrency = v]
    /\ last' = Ev("other")
    /\ UNCHANGED <<shell, storage, auth, cform, calls, now, clientVars>>

\* The location button: getLocation asks the browser for the position, or
\* reports that the browser has no geolocation.  A pending request stands
\* among the calls in flight, with no fetchApi call of its own.
TxnGetLocation ==
    /\ Rendered(shell) = "TransactionForm"
    /\ \E supported \in BOOLEAN :
         IF supported
         THEN /\ Len(calls) < MaxCalls
              /\ calls' = Append(calls, InFlight("getLocation", <<>>, Idle))
              /\ tform' = tform
         ELSE /\ calls' = calls
              /\ tform' = [tform EXCEPT !.message =
                              <<"Geolocation is not supported by this browser.">>]
    /\ last' = Ev("other")
    /\ UNCHANGED <<shell, storage, auth, cform, now, clientVars>>

\* The success callback of getCurrentPosition.
PositionFound(f, fix) ==
    [f EXCEPT !.latitude = fix.latitude, !.longitude = fix.longitude,
              !.message = <<"Geolocation captured successfully.">>]

\* The error callback of getCurrentPosition.
PositionFailed(f, message) ==
    [f EXCEPT !.message = <<"Geolocation error: ">> \o message]

\* getCurrentPosition calls back, with a position or with an error.
TxnPositionSettles ==
    /\ \E k \in 1..Len(calls) :
         /\ calls[k].owner = "getLocation"
         /\ \E f \in {PositionFound(tform, fix) : fix \in Fixes}
                      \cup {PositionFailed(tform, m) : m \in GeolocationErrors} :
              tform' = IF calls[k].orphan THEN tform ELSE f
         /\ calls' = RemoveAt(calls, k)
    /\ last' = Ev("other")
    /\ UNCHANGED <<shell, storage, auth, cform, now, clientVars>>

\* The container selector: onChange, then the effect on selectedContainerId,
\* which runs loadAccounts up to its await.
SelectContainer ==
    /\ Rendered(shell) = "TransactionForm"
    /\ \E k \in 1..Len(tform.containers) :
         LET v == OptionValue(tform.containers[k])
         IN /\ v # tform.selectedContainerId
            /\ tform' = [tform EXCEPT !.selectedContainerId = v,
                                      !.selectedAccountId = <<>>,
                                      !.message = <<>>]
            /\ calls' = Append(calls,
                   InFlight("loadAccounts", [token |-> shell.token, container |-> v],
                            StartCall(shell.token,
                                      <<"/account-container/">> \o v \o <<"/accounts">>,
                                      "GET", JNull, DefaultRetries)))
    /\ last' = Ev("other")
    /\ UNCHANGED <<shell, storage, auth, cform, now, clientVars>>

TxnSelectContainer ==
    /\ Len(calls) < MaxCalls
    /\ SelectContainer

\* The container selector used while earlier account loads are pending.
TxnSwitchContainer ==
    /\ Len(calls) < MaxLoads
    /\ SelectContainer

TxnSelectAccount ==
    /\ Rendered(shell) = "TransactionForm"
    /\ tform.selectedContainerId # <<>>
    /\ \E k \in 1..Len(tform.accounts) :
         tform' = [tform EXCEPT !.selectedAccountId = OptionValue(tform.accounts[k])]
    /\ last' = Ev("other")
    /\ UNCHANGED <<shell, storage, auth, cform, calls, now, clientVars>>

TxnSelectCategory ==
    /\ Rendered(shell) = "TransactionForm"
    /\ \E k \in 1..Len(tform.categories) :
         tform' = [tform EXCEPT !.selectedCategoryId = OptionValue(tform.categories[k])]
    /\ last' = Ev("other")
    /\ UNCHANGED <<shell, storage, auth, cform, calls, now, clientVars>>

\* The Reload Data button: loadInitialData up to its first await.
TxnReload ==
    /\ Rendered(shell) = "TransactionForm"
    /\ ~tform.isDataLoading
    /\ Len(calls) < MaxCalls
    /\ tform' = LoadInitialDataStart(tform)
    /\ calls' = Append(calls,
           InFlight("loadContainers", [token |-> shell.token],
                    StartCall(shell.token, "/account-container", "GET", JNull,
                              DefaultRetries)))
    /\ last' = Ev("other")
    /\ UNCHANGED <<shell, storage, auth, cform, now, clientVars>>

\* TransactionForm.handleSubmit up to its return or its await.
TxnHandleSubmit ==
    /\ IF TxnInvalid(tform)
       THEN /\ tform' = [tform EXCEPT
                           !.message = <<"Please fill out Description, Amount, Account, and Category.">>,
                           !.isLoading = FALSE]
            /\ calls' = calls
            /\ last' = Ev("transactionSubmit")
       ELSE /\ tform' = [tform EXCEPT !.message = <<>>, !.isLoading = TRUE]
            /\ calls' = Append(calls,
                   InFlight("transaction",
                            [token |-> shell.token,
                             parsedAmount |-> ParseFloat(JStr(tform.amount)),
                             selectedCurrency |-> tform.selectedCurrency],
                            StartCall(shell.token, "/transaction", "POST",
                                      TxnBody(tform, now), DefaultRetries)))
            /\ last' = Ev("transactionSubmit")
    /\ UNCHANGED <<shell, storage, auth, cform, now, clientVars>>

\* The submit button of the form.
TxnSubmit ==
    /\ Rendered(shell) = "TransactionForm"
    /\ ~TxnSubmitDisabled(tform)
    /\ TxnHandleSubmit

\* -------- the calls in flight
\* The event recorded when the call e ended as the fetchApi record c.
Settled(e, c) ==
    [ev |-> "settled", owner |-> e.owner, orphan |-> e.orphan, env |-> e.env,
     fetch |-> c]

\* The handler awaiting call e runs on after fetchApi ended as c; rest are
\* the other calls in flight.  State setters of an unmounted form have no
\* effect, the shell's handlers always do.
Continue(e, c, rest) ==
    LET sh == IF e.owner = "login"
              THEN LoginSettled(auth, shell, e.env, c).shell ELSE shell
        a == CASE e.orphan -> auth
               [] e.owner = "login" -> LoginSettled(auth, shell, e.env, c).auth
               [] e.owner = "register" -> RegisterSettled(auth, e.env, c)
               [] OTHER -> auth
        cf == IF e.owner = "container" /\ ~e.orphan
              THEN ContainerSettled(cform, c, now) ELSE cform
        tf == CASE e.orphan -> tform
                [] e.owner = "transaction" -> TxnSettled(tform, e.env, c)
                [] e.owner = "loadContainers" -> ContainersSettled(tform, c)
                [] e.owner = "loadCategories" -> CategoriesSettled(tform, c)
                [] e.owner = "loadAccounts" -> AccountsSettled(tform, c)
                [] OTHER -> tform
        cs == IF e.owner = "loadContainers" /\ ~LoadFailed(c)
              THEN Append(rest,
                     [InFlight("loadCategories", e.env,
                               StartCall(e.env.token, "/category", "GET", JNull,
                                         DefaultRetries))
                        EXCEPT !.orphan = e.orphan])
              ELSE rest
        tr == Transition(shell, sh, a, cf, tf, cs, now)
    IN /\ shell' = sh
       /\ auth' = tr.auth
       /\ cform' = tr.cform
       /\ tform' = tr.tform
       /\ calls' = tr.calls
       /\ last' = Settled(e, c)

\* The call in flight at k moves on to c; once fetchApi has ended, the
\* handler awaiting it runs on.
Advance(k, c) ==
    IF c.pc \in {"waiting", "reading"}
    THEN /\ calls' = [calls EXCEPT ![k].fetch = c]
         /\ last' = Ev("other")
         /\ UNCHANGED <<shell, auth, cform, tform>>
    ELSE Continue(calls[k], c, RemoveAt(calls, k))

\* The transport settles the pending fetch of a call in flight.
SettleCall(k, resp) ==
    /\ calls[k].fetch.pc = "fetching"
    /\ Advance(k, Respond(calls[k].fetch, HeadOf(resp)))

\* The body of the response to a call in flight arrives.
ReadCall(k, resp) ==
    /\ calls[k].fetch.pc = "reading"
    /\ HeadOf(resp) = calls[k].fetch.response
    /\ Advance(k, ReadBody(calls[k].fetch, resp.body))

AppFetchSettles ==
    /\ \E k \in 1..Len(calls), resp \in AppResponses : SettleCall(k, resp)
    /\ UNCHANGED <<storage, now, clientVars>>

AppBodySettles ==
    /\ \E k \in 1..Len(calls), resp \in AppResponses : ReadCall(k, resp)
    /\ UNCHANGED <<storage, now, clientVars>>

\* A server with two containers, each with its own account.
ContainersResult ==
    JArr(<<JObj([id |-> JStr(<<"c1">>), name |-> JStr(<<"Home">>)]),
           JObj([id |-> JStr(<<"c2">>), name |-> JStr(<<"Work">>)])>>)

\* The body of GET /account-container/{v}/accounts.
AccountsResult(v) ==
    JArr(<<JObj([id |-> JStr(<<"a">> \o v), name |-> JStr(<<"Cash">>),
                 currency |-> JStr(<<"EUR">>)])>>)

\* What that server can answer to the call e: a failure, or the success
\* of the request made.
Answers(e) ==
    AppFailures
    \cup { [kind |-> "http", status |-> 200,
            body |-> [parse |-> "ok",
                      value |-> IF e.owner = "loadAccounts"
                                THEN AccountsResult(e.env.container)
                                ELSE JNull]] }

\* The transport settles the pending fetch of a call to that server.
TxnFetchSettles ==
    /\ \E k \in 1..Len(calls) :
         \E resp \in Answers(calls[k]) : SettleCall(k, resp)
    /\ UNCHANGED <<storage, now, clientVars>>

\* The body of that server's response arrives.
TxnBodySettles ==
    /\ \E k \in 1..Len(calls) :
         \E resp \in Answers(calls[k]) : ReadCall(k, resp)
    /\ UNCHANGED <<storage, now, clientVars>>

\* Time passes for every pending backoff timer, a backoff unit at a time.
AppTick ==
    /\ \E k \in 1..Len(calls) :
         calls[k].fetch.pc = "waiting" /\ calls[k].fetch.elapsed < calls[k].fetch.delay
    /\ calls' = [k \in 1..Len(calls) |->
                   IF calls[k].fetch.pc = "waiting"
                      /\ calls[k].fetch.elapsed < calls[k].fetch.delay
                   THEN [calls[k] EXCEPT !.fetch.elapsed = @ + BackoffUnitMs]
                   ELSE calls[k]]
    /\ last' = Ev("other")
    /\ UNCHANGED <<shell, storage, auth, cform, tform, now, clientVars>>

\* setTimeout calls back in a call in flight whose delay has elapsed.
AppTimerFires ==
    /\ \E k \in 1..Len(calls) :
         /\ calls[k].fetch.pc = "waiting"
         /\ calls[k].fetch.elapsed >= calls[k].fetch.delay
         /\ calls' = [calls EXCEPT ![k].fetch = Resume(calls[k].fetch)]
    /\ last' = Ev("other")
    /\ UNCHANGED <<shell, storage, auth, cform, tform, now, clientVars>>

\* ------------------------------------------------------- specifications
\* The application: the shell with its three forms, driven by a user.
InitApp ==
    /\ token = JNull
    /\ call = Idle
    /\ \E store \in StorageValues : AppStart(store)

NextApp ==
    \/ Logout \/ NavClick \/ GoToOtherForm \/ Reload
    \/ AuthSetUsername \/ AuthTab \/ AuthSubmit
    \/ ContainerSetName \/ ContainerSetAccountName \/ ContainerSubmit
    \/ TxnReload
    \/ AppFetchSettles \/ AppBodySettles \/ AppTick \/ AppTimerFires

SpecApp == InitApp /\ [][NextApp]_vars

\* The server the forms on their own talk to.  It answers the call e with
\* the success of the request made; a call can also fail in the transport
\* or be answered 401.
TransactionResult == JObj([description |-> JStr(<<"d">>)])

Reply(owner) ==
    CASE owner \in {"login", "register"} -> LoginResult(<<"Ann">>, <<"T">>)
      [] owner = "container" -> ContainerResult
      [] owner = "transaction" -> TransactionResult
      [] OTHER -> ListResult

Replies(e) ==
    { [kind |-> "network",
       error |-> [name |-> "TypeError", message |-> <<"Failed to fetch">>]],
      [kind |-> "http", status |-> StatusUnauthorized,
       body |-> [parse |-> "fail", msg |-> <<"Unexpected token">>]],
      [kind |-> "http", status |-> 200,
       body |-> [parse |-> "ok", value |-> Reply(e.owner)]] }

\* The transport settles the pending fetch of a call to that server.
FormsFetchSettles ==
    /\ \E k \in 1..Len(calls) :
         \E resp \in Replies(calls[k]) : SettleCall(k, resp)
    /\ UNCHANGED <<storage, now, clientVars>>

\* The body of that server's response arrives.
FormsBodySettles ==
    /\ \E k \in 1..Len(calls) :
         \E resp \in Replies(calls[k]) : ReadCall(k, resp)
    /\ UNCHANGED <<storage, now, clientVars>>

\* The forms on their own: the auth form as the page shows it first, or a
\* logged-in shell showing the container form, with one account or after a
\* second one was added, or the transaction form with its lists loaded.
\* The user types into every field, picks from every selector, asks for the
\* location and submits, and the form's handleSubmit is also invoked on a
\* form that is not loading whatever else the submit button tests.
ContainerStates ==
    {ContainerInitial(1),
     [ContainerInitial(1) EXCEPT !.accounts = <<NewAccount(1), NewAccount(2)>>]}

TxnStates ==
    {[TxnInitial EXCEPT !.containers = MapIdName(ListResult),
                        !.categories = MapIdName(ListResult),
                        !.isDataLoading = FALSE]}

InitForms ==
    /\ token = JNull
    /\ call = Idle
    /\ storage = [token |-> JNull, username |-> JNull]
    /\ auth = AuthInitial
    /\ calls = <<>>
    /\ last = Ev("start")
    /\ now = 1
    /\ \E v \in {"auth", "accountContainer", "transaction"} :
         /\ shell = IF v = "auth"
                    THEN [token |-> JNull, user |-> JNull, view |-> v]
                    ELSE [token |-> JStr(<<"T">>), user |-> JStr(<<"ann">>),
                          view |-> v]
         /\ IF v = "accountContainer"
            THEN cform \in ContainerStates /\ tform = TxnInitial
            ELSE IF v = "transaction"
            THEN cform = ContainerInitial(0) /\ tform \in TxnStates
            ELSE cform = ContainerInitial(0) /\ tform = TxnInitial

\* handleSubmit of the container form, whatever else the button tests.
FormsContainerSubmit ==
    /\ Rendered(shell) = "AccountContainerForm"
    /\ ~cform.isLoading
    /\ ContainerHandleSubmit

\* handleSubmit of the transaction form, whatever else the button tests.
FormsTxnSubmit ==
    /\ Rendered(shell) = "TransactionForm"
    /\ ~tform.isLoading
    /\ TxnHandleSubmit

\* The fields the user fills in while nothing is in flight.  While a call is
\* in flight the user goes on typing in the fields of the auth form and in
\* the first field of the other forms.
FormsFill ==
    /\ calls = <<>>
    /\ \/ ContainerTypeAccountName \/ ContainerSetAccountType
       \/ ContainerSetAccountCurrency \/ ContainerSetAccountBalance
       \/ TxnSetAmount \/ TxnSetLatitude \/ TxnSetLongitude
       \/ TxnSetTransactionType \/ TxnSetSelectedCurrency
       \/ TxnSelectAccount \/ TxnSelectCategory

NextForms ==
    \/ FormsContainerSubmit \/ FormsTxnSubmit
    \/ AuthSetUsername \/ AuthSetPassword \/ AuthTab \/ AuthSubmit
    \/ ContainerTypeName \/ ContainerSubmit
    \/ TxnSetDescription \/ TxnGetLocation \/ TxnPositionSettles
    \/ TxnSelectContainer \/ TxnReload \/ TxnSubmit
    \/ FormsFill
    \/ FormsFetchSettles \/ FormsBodySettles \/ AppTick \/ AppTimerFires

SpecForms == InitForms /\ [][NextForms]_vars

\* The container form from its mounting on, with its list of accounts
\* edited while the clock runs.
InitAccounts ==
    /\ token = JNull
    /\ call = Idle
    /\ storage = [token |-> JNull, username |-> JNull]
    /\ shell = [token |-> JStr(<<"T">>), user |-> JStr(<<"ann">>),
                view |-> "accountContainer"]
    /\ auth = AuthInitial
    /\ now = 1
    /\ cform = ContainerInitial(now)
    /\ tform = TxnInitial
    /\ calls = <<>>
    /\ last = Ev("start")

NextAccounts ==
    \/ AddAccount \/ RemoveAccount \/ ClockTick
    \/ ContainerSetName \/ ContainerSetAccountName \/ ContainerSubmit
    \/ AppFetchSettles \/ AppBodySettles \/ AppTick \/ AppTimerFires

SpecAccounts == InitAccounts /\ [][NextAccounts]_vars

\* The transaction form with its data loaded and its text fields filled,
\* the user switching between the containers.
InitTxn ==
    /\ token = JNull
    /\ call = Idle
    /\ storage = [token |-> JNull, username |-> JNull]
    /\ shell = [token |-> JStr(<<"T">>), user |-> JStr(<<"ann">>),
                view |-> "transaction"]
    /\ auth = AuthInitial
    /\ now = 1
    /\ cform = ContainerInitial(0)
    /\ tform = [TxnInitial EXCEPT
                   !.containers = MapIdName(ContainersResult),
                   !.categories = MapIdName(ListResult),
                   !.description = <<"d">>, !.amount = <<"5">>,
                   !.selectedCategoryId = <<"i1">>,
                   !.isDataLoading = FALSE]
    /\ calls = <<>>
    /\ last = Ev("start")

NextTxn ==
    \/ TxnSwitchContainer \/ TxnSelectAccount \/ TxnSubmit
    \/ TxnFetchSettles \/ TxnBodySettles \/ AppTick \/ AppTimerFires

SpecTxn == InitTxn /\ [][NextTxn]_vars

\* ------------------------------------------------------------------ claims
\* C1: when attempt k of a call (retries >= 1) receives status 401 the call
\* is rejected right after that attempt: the request of attempt k is the
\* last one issued and no backoff wait is started, whatever retries is.
C1_UnauthorizedNeverRetried ==
    (call.response.kind = "http" /\ call.response.status = 401) =>
        /\ call.pc = "rejected"
        /\ call.result.kind = "error"
        /\ Includes(call.result.error.message, "Unauthorized")
        /\ Len(call.requests) = call.i + 1
        /\ Len(call.waits) = call.i

\* A 401 on the second of three attempts: one attempt was left.
C1_Witness ==
    /\ call.pc = "rejected"
    /\ call.response.kind = "http" /\ call.response.status = 401
    /\ call.retries = 3 /\ call.i = 1

\* C2: in a finished call (retries >= 1) in which no attempt received 401,
\* the number of requests issued is min(retries, index of the first attempt
\* that succeeded), whatever the status or the message text of a failure.
C2_AttemptCount ==
    (call.pc \in {"resolved", "rejected"} /\ call.retries >= 1 /\ ~call.got401) =>
        LET firstSuccess == IF call.pc = "resolved" THEN call.i + 1
                            ELSE call.retries + 1
        IN Len(call.requests) =
              IF call.retries < firstSuccess THEN call.retries ELSE firstSuccess

\* C3: the k-th backoff wait of a call lasts 2^(k-1) seconds and has fully
\* elapsed before the next attempt is issued; a wait is pending only after
\* a failed attempt that is not the last one, and every request after the
\* first was preceded by exactly one wait.
C3_BackoffDelays ==
    /\ \A k \in 1..Len(call.waits) :
          /\ call.waits[k].delay = (2 ^ (k - 1)) * 1000
          /\ call.waits[k].elapsed >= call.waits[k].delay
    /\ call.pc = "waiting" =>
          /\ call.delay = (2 ^ call.i) * 1000
          /\ call.i < call.retries - 1
          /\ call.caught # NoError
          /\ Len(call.waits) = call.i
    /\ call.pc \in {"fetching", "rejected"} =>
          Len(call.waits) = Len(call.requests) - 1
    /\ (call.pc = "resolved" /\ call.retries >= 1) =>
          Len(call.waits) = Len(call.requests) - 1

\* Two waits (1 s and 2 s) are over and the third attempt is in flight.
C3_Witness ==
    /\ call.pc = "fetching"
    /\ Len(call.waits) = 2
    /\ Len(call.requests) = 3

\* C4: a success status that is 204 or answers a DELETE resolves the call
\* with null and the body is not read; a DELETE answered with a non-success
\* status is a failure and does not resolve.
C4_NoContentResolvesNull ==
    call.response.kind = "http" =>
        LET st == call.response.status
            success == st >= 200 /\ st =< 299
        IN /\ (success /\ (st = 204 \/ call.method = "DELETE")) =>
                /\ call.pc = "resolved"
                /\ call.result = [kind |-> "value", value |-> JNull]
                /\ ~call.bodyRead
           /\ (~success /\ call.method = "DELETE") =>
                /\ call.pc \in {"reading", "waiting", "rejected"}
                /\ call.pc # "reading" => call.caught # NoError
                /\ call.result.kind # "value"

\* A DELETE answered 200 resolved with null, its body never awaited.
C4_Witness ==
    /\ call.pc = "resolved"
    /\ call.method = "DELETE"
    /\ call.response.kind = "http" /\ call.response.status = 200
    /\ call.response.body = BodyPending
    /\ ~call.bodyRead
    /\ call.result = [kind |-> "value", value |-> JNull]

\* C5 as stated: every success status other than 204 on a method other than
\* DELETE resolves the call with the parsed JSON body of that response.
C5_SuccessResolvesWithBody ==
    (/\ call.response.kind = "http"
     /\ call.pc # "reading"
     /\ call.response.status >= 200 /\ call.response.status =< 299
     /\ call.response.status # 204
     /\ call.method # "DELETE") =>
        /\ call.pc = "resolved"
        /\ call.response.body.parse = "ok"
        /\ call.result = [kind |-> "value", value |-> call.response.body.value]

\* C5 amended: such a response resolves the call with its parsed body when
\* the body parses as JSON; when it does not parse the attempt is a failure
\* (SyntaxError) and the call does not resolve on it.
C5_ParsedBodyResolves ==
    (/\ call.response.kind = "http"
     /\ call.pc # "reading"
     /\ call.response.status >= 200 /\ call.response.status =< 299
     /\ call.response.status # 204
     /\ call.method # "DELETE") =>
        IF call.response.body.parse = "ok"
        THEN /\ call.pc = "resolved"
             /\ call.bodyRead
             /\ call.result = [kind |-> "value", value |-> call.response.body.value]
        ELSE /\ call.pc \in {"waiting", "rejected"}
             /\ call.caught.name = "SyntaxError"
             /\ call.result.kind # "value"

\* The second attempt of a POST was answered 200 with a JSON object.
C5_Witness ==
    /\ call.pc = "resolved"
    /\ call.method = "POST"
    /\ call.i = 1
    /\ call.response.kind = "http" /\ call.response.status = 200
    /\ call.response.body.parse = "ok"
    /\ call.result = [kind |-> "value", value |-> JObj([id |-> JNum(7)])]

\* C6: on a client without a token (null or the empty string) no request,
\* first attempt or retry, has an Authorization header; on a client with
\* token T every request has Authorization: Bearer T (a token that is the
\* number 5 is sent as its text).
C6_AuthorizationHeader ==
    \A k \in 1..Len(call.requests) :
        LET h == call.requests[k].headers
        IN IF token = JNull \/ token = JStr(<<>>)
           THEN "Authorization" \notin DOMAIN h
           ELSE /\ "Authorization" \in DOMAIN h
                /\ h.Authorization =
                     IF token.t = "str" THEN <<"Bearer ">> \o token.v
                     ELSE <<"Bearer ", "5">>

\* A client with token T has issued a first attempt and two retries.
C6_Witness ==
    /\ token = JStr(<<"T">>)
    /\ Len(call.requests) = 3
    /\ call.requests[3].headers.Authorization = <<"Bearer ", "T">>

\* C7: a call whose attempts all fail without a 401 rejects with the
\* failure of its last attempt, and not before retries attempts were made.
C7_RejectsAfterLastAttempt ==
    (call.pc = "rejected" /\ ~call.got401) =>
        /\ Len(call.requests) = call.retries
        /\ call.result = [kind |-> "error", error |-> call.caught]

\* C8: a transport failure is retried after the backoff of its attempt
\* while attempts remain and is the call's failure on the last attempt.
C8_TransportFailureRetried ==
    call.response.kind = "network" =>
        IF call.i < call.retries - 1
        THEN /\ call.pc = "waiting"
             /\ call.delay = (2 ^ call.i) * 1000
             /\ call.result.kind = "pending"
        ELSE /\ call.pc = "rejected"
             /\ Len(call.requests) = call.retries
             /\ call.result = [kind |-> "error", error |-> call.response.error]

\* The third of three attempts failed in the transport.
C8_Witness ==
    /\ call.response.kind = "network"
    /\ call.pc = "rejected"
    /\ call.retries = 3 /\ call.i = 2
    /\ Len(call.waits) = 2

\* C9 as stated: for a non-success status other than 401 the failure's
\* message is the body's message field when there is a non-empty one and
\* "Unknown server error" in every other case.
C9_MessageOrUnknown ==
    (/\ call.response.kind = "http"
     /\ call.pc # "reading"
     /\ call.response.status # 401
     /\ ~(call.response.status >= 200 /\ call.response.status =< 299)) =>
        LET b == call.response.body
            extracted == /\ b.parse = "ok"
                         /\ b.value.t = "obj"
                         /\ "message" \in DOMAIN b.value.f
                         /\ b.value.f.message # JStr(<<>>)
        IN call.caught.message =
              IF ~extracted THEN <<"Unknown server error">>
              ELSE IF b.value.f.message.t = "str" THEN b.value.f.message.v
              ELSE <<"5">>

\* C9 amended: the message is the body's message field when it is a
\* non-empty string and its text when it is a number other than zero (5
\* gives "5"), "Unknown server error" when the body does not parse as JSON,
\* "API call failed with status: <status>" when the body parses to an
\* object without a message or with an empty one, and a body that parses
\* to null makes the attempt fail with the TypeError of the property read.
C9_MessageByBody ==
    (/\ call.response.kind = "http"
     /\ call.pc # "reading"
     /\ call.response.status # 401
     /\ ~(call.response.status >= 200 /\ call.response.status =< 299)) =>
        LET b == call.response.body
        IN /\ call.bodyRead
           /\ IF b.parse = "fail"
              THEN call.caught = [name |-> "Error",
                                  message |-> <<"Unknown server error">>]
              ELSE IF b.value.t = "null"
              THEN call.caught.name = "TypeError"
              ELSE IF "message" \in DOMAIN b.value.f
                      /\ b.value.f.message.t = "str"
                      /\ b.value.f.message.v # <<>>
              THEN call.caught = [name |-> "Error",
                                  message |-> b.value.f.message.v]
              ELSE IF b.value = JObj([message |-> JNum(5)])
              THEN call.caught = [name |-> "Error", message |-> <<"5">>]
              ELSE call.caught =
                     [name |-> "Error",
                      message |-> <<"API call failed with status: ",
                                    ToString(call.response.status)>>]

\* A 404 whose JSON body has no message field failed the last attempt.
C9_Witness ==
    /\ call.pc = "rejected"
    /\ call.response.kind = "http" /\ call.response.status = 404
    /\ call.response.body = [parse |-> "ok", value |-> JObj([id |-> JNum(7)])]
    /\ call.caught.message = <<"API call failed with status: ", "404">>

\* C10: the failure for a non-success status other than 401 carries the
\* numeric status of the response besides its message.
C10_FailureCarriesStatus ==
    (/\ call.response.kind = "http"
     /\ call.pc # "reading"
     /\ call.response.status # 401
     /\ ~(call.response.status >= 200 /\ call.response.status =< 299)) =>
        /\ "status" \in DOMAIN call.caught
        /\ call.caught.status = call.response.status

\* C12: for every value of retries, zero and negative ones included, a
\* finished call either resolved on an attempt that received a success
\* response, with the parsed JSON body or with null for 204/DELETE, or was
\* rejected with a failure; it never resolves without such an attempt.
C12_ThreeOutcomes ==
    /\ call.pc = "resolved" =>
          /\ Len(call.requests) >= 1
          /\ call.response.kind = "http"
          /\ call.response.status >= 200 /\ call.response.status =< 299
          /\ call.result.kind = "value"
          /\ call.result.value # JUndef
    /\ call.pc = "rejected" => call.result.kind = "error"

\* The token a call in flight was started with: the session token for the
\* forms of a session, none for the auth form.
CallToken(e) == IF "token" \in DOMAIN e.env THEN e.env.token ELSE JNull

\* The calls of the application that are in flight or just ended.
Observed ==
    {calls[k] : k \in 1..Len(calls)}
        \cup (IF last.ev = "settled"
              THEN {[owner |-> last.owner, orphan |-> last.orphan,
                     env |-> last.env, fetch |-> last.fetch]}
              ELSE {})

SessionOwners ==
    {"container", "transaction", "loadContainers", "loadCategories",
     "loadAccounts"}

LoggedOut == [token |-> JNull, user |-> JNull, view |-> "auth"]

\* C11: every attempt of a call of the application sends the request of the
\* first attempt: same address, method, headers and body, the Authorization
\* header being the one of the token the call was started with, whatever the
\* session token has become since (logout, another login).
C11_RetriesRepeatFirstRequest ==
    \A e \in Observed :
        \A j \in 1..Len(e.fetch.requests) :
            /\ e.fetch.requests[j] = e.fetch.requests[1]
            /\ e.fetch.requests[j].headers = Headers(CallToken(e))
            /\ e.fetch.requests[j].body = RequestBody(e.fetch.body)

\* A call started with the session token T is at its third attempt while
\* the session has no token any more.
C11_Witness ==
    \E e \in Observed :
        /\ CallToken(e) = JStr(<<"T">>)
        /\ shell.token = JNull
        /\ e.orphan
        /\ Len(e.fetch.requests) = 3
        /\ e.fetch.requests[3].headers = Headers(JStr(<<"T">>))

\* C13: the step in which a login submit ends with {username, token} leaves
\* the shell with that token, the username that was submitted and the
\* account-container view; the step in which it ends rejected (after the
\* retries, or with 401) leaves token, user and view as they were, with the
\* auth form still shown, no longer loading, and showing the error's message.
C13_LoginOutcome ==
    [][ (last'.ev = "settled" /\ last'.owner = "login") =>
          LET c == last'.fetch
          IN /\ (/\ c.pc = "resolved"
                 /\ c.result.value.t = "obj"
                 /\ {"username", "token"} \subseteq DOMAIN c.result.value.f)
                  => shell' = [token |-> c.result.value.f.token,
                               user |-> JStr(last'.env.username),
                               view |-> "accountContainer"]
             /\ c.pc = "rejected"
                  => /\ shell' = shell
                     /\ Rendered(shell') = "AuthForm"
                     /\ auth'.message = c.result.error.message
                     /\ auth'.message # <<>>
                     /\ ~auth'.isLoading ]_vars

\* A login submitted as ann succeeded with the token T for the account the
\* server names Ann: the shell holds T and ann.
C13_Witness ==
    /\ last.ev = "settled" /\ last.owner = "login"
    /\ last.fetch.pc = "resolved"
    /\ last.env.username = <<"ann">>
    /\ shell = [token |-> JStr(<<"T">>), user |-> JStr(<<"ann">>),
                view |-> "accountContainer"]

\* C16: the step in which a registration submit ends rejected (401, or
\* another failure after the retries) leaves isLogin as it was and shows the
\* error's message; the form's isLogin changes only in a step that is a
\* click on a tab or the success of a registration, which makes it true.
C16_SwitchOnlyOnSuccess ==
    [][ /\ (last'.ev = "settled" /\ last'.owner = "register"
            /\ last'.fetch.pc = "rejected")
             => /\ auth'.isLogin = auth.isLogin
                /\ auth'.message = last'.fetch.result.error.message
                /\ auth'.message # <<>>
        /\ (/\ Rendered(shell) = "AuthForm" /\ Rendered(shell') = "AuthForm"
            /\ last'.ev # "start"
            /\ auth'.isLogin # auth.isLogin)
             => \/ last'.ev = "tab"
                \/ /\ last'.ev = "settled" /\ last'.owner = "register"
                   /\ last'.fetch.pc = "resolved"
                   /\ auth'.isLogin ]_vars

\* A registration was rejected with 401 and the form is on the Register tab
\* with the message of the failure.
C16_Witness ==
    /\ last.ev = "settled" /\ last.owner = "register"
    /\ last.fetch.pc = "rejected" /\ last.fetch.got401
    /\ ~auth.isLogin
    /\ auth.message = UnauthorizedMessage

\* C17: the step of a logout leaves no token, no user and the view 'auth';
\* from a shell in that state every step leaves the shell as it is, except
\* the step in which a login submit ends resolved: the end of any call
\* started before the logout, retried or not, leaves the shell alone.
C17_LoggedOutUntilLogin ==
    [][ /\ last'.ev = "logout" => shell' = LoggedOut
        /\ shell = LoggedOut =>
             \/ shell' = shell
             \/ /\ last'.ev = "settled" /\ last'.owner = "login"
                /\ last'.fetch.pc = "resolved" ]_vars

\* A container submit made before the logout succeeded at its second
\* attempt after the logout: the shell is still logged out.
C17_Witness ==
    /\ last.ev = "settled" /\ last.owner = "container" /\ last.orphan
    /\ last.fetch.pc = "resolved" /\ last.fetch.i = 1
    /\ shell = LoggedOut

\* C18: when a call made with the session token (container or transaction
\* creation, data loading) ends rejected by a 401, the shell has no token
\* and no user, so the auth form is shown.
C18_UnauthorizedClearsSession ==
    (/\ last.ev = "settled" /\ last.owner \in SessionOwners
     /\ last.fetch.pc = "rejected" /\ last.fetch.got401)
        => /\ shell.token = JNull
           /\ shell.user = JNull
           /\ Rendered(shell) = "AuthForm"

\* C19: a call of the application ends only by succeeding, by receiving a
\* 401 or by having issued all its attempts, also when its form was
\* unmounted by a logout or a view switch while it was in flight.
C19_RunsToCompletion ==
    \A e \in Observed :
        e.fetch.pc \in {"resolved", "rejected"} =>
            \/ e.fetch.pc = "resolved"
            \/ e.fetch.got401
            \/ Len(e.fetch.requests) = e.fetch.retries

\* C20: the page started with a token and a username in the browser's
\* storage shows a logged-in view with that token and user, and after a
\* logout the storage holds no token.
C20_SessionRestored ==
    /\ (last.ev = "start" /\ Truthy(storage.token))
          => /\ shell.token = storage.token
             /\ shell.user = storage.username
             /\ Rendered(shell) # "AuthForm"
    /\ last.ev = "logout" => ~Truthy(storage.token)

\* The text s holds nothing but white space.
Blank(s) == \A k \in 1..Len(Chars(s)) : Chars(s)[k] \in WhiteSpace

\* C14: a handleSubmit of the transaction form with the category missing,
\* a description of nothing but white space, an amount that parses to no
\* number or no account selected starts no call: the step only sets the
\* validation message and leaves isLoading false.
C14_InvalidIssuesNoRequest ==
    [][ (/\ last'.ev = "transactionSubmit"
         /\ \/ tform.selectedCategoryId = <<>>
            \/ Blank(tform.description)
            \/ ParseFloat(JStr(tform.amount)) = NaN
            \/ tform.selectedAccountId = <<>>)
          => /\ calls' = calls
             /\ tform' = [tform EXCEPT
                   !.message = <<"Please fill out Description, Amount, Account, and Category.">>,
                   !.isLoading = FALSE] ]_vars

\* handleSubmit ran on a form that lacked nothing but the category: its
\* description is an accented letter between a no-break space and a tab,
\* its amount 1.5 after a no-break space.
C14_Witness ==
    /\ last.ev = "transactionSubmit"
    /\ tform.selectedCategoryId = <<>>
    /\ tform.description = <<"\\u00a0", "\\u00e9", "\\u200b", "\t">>
    /\ tform.amount = <<"\\u00a0", "1", ".", "5">>
    /\ tform.selectedAccountId = <<"i1">>
    /\ tform.transactionType = "TRANSFER"
    /\ tform.message # <<>>
    /\ ~tform.isLoading
    /\ calls = <<>>

\* The positions in the form of the accounts with a non-blank name.
NamedAccounts(accounts) ==
    {k \in 1..Len(accounts) : ~Blank(accounts[k].name)}

\* The text t is the text s without the white space at its two ends: a
\* part of s that neither starts nor ends with white space, with nothing
\* but white space before and after it.
Stripped(t, s) ==
    \E i \in 0..TextLength(s) : \E j \in i..TextLength(s) :
        /\ Chars(t) = SubSeq(Chars(s), i + 1, j)
        /\ \A k \in (1..i) \cup ((j + 1)..TextLength(s)) : Chars(s)[k] \in WhiteSpace
        /\ i < j => Chars(s)[i + 1] \notin WhiteSpace /\ Chars(s)[j] \notin WhiteSpace

\* C15: the call a container submit starts is a POST /account-container whose
\* body has exactly the fields name, the container name without the white
\* space at its ends, and subaccounts: one entry per form account with a
\* non-blank name, in form order, each with exactly the fields name
\* (without the white space at its ends), accountType, currency and
\* initialBalance, a number that is 0 when the input does not parse; no
\* entry carries the form's id of the account.
C15_ContainerBody ==
    [][ (last'.ev = "containerSubmit" /\ calls' # calls) =>
          LET req == calls'[Len(calls')].fetch.requests[1]
              b == req.body.json
              subs == b.f.subaccounts.a
              named == NamedAccounts(cform.accounts)
          IN /\ req.url = Url("/account-container")
             /\ req.method = "POST"
             /\ b.t = "obj"
             /\ DOMAIN b.f = {"name", "subaccounts"}
             /\ b.f.name.t = "str"
             /\ Stripped(b.f.name.v, cform.containerName)
             /\ b.f.subaccounts.t = "arr"
             /\ Len(subs) = Cardinality(named)
             /\ \A k \in named :
                  LET acc == cform.accounts[k]
                      sub == subs[Cardinality({m \in named : m =< k})]
                      parsed == ParseFloat(acc.initialBalance)
                  IN /\ sub.t = "obj"
                     /\ DOMAIN sub.f =
                          {"name", "accountType", "currency", "initialBalance"}
                     /\ sub.f.name.t = "str"
                     /\ Stripped(sub.f.name.v, acc.name)
                     /\ sub.f.accountType = JStr(<<acc.accountType>>)
                     /\ sub.f.currency = JStr(<<acc.currency>>)
                     /\ sub.f.initialBalance.t = "num"
                     /\ sub.f.initialBalance =
                          IF parsed = NaN THEN JNum(0) ELSE parsed ]_vars

\* A form was submitted whose first account has a name of white space
\* alone and whose second account, a cash account in forints with a
\* balance that is no number, has the name of the container: an accented
\* letter and a zero-width space between a no-break space and a tab.  The
\* body has that name stripped and one subaccount with balance 0.
C15_Witness ==
    /\ last.ev = "containerSubmit"
    /\ Len(calls) = 1
    /\ Len(cform.accounts) = 2
    /\ cform.containerName = <<"\\u00a0", "\\u00e9", "\\u200b", "\t">>
    /\ cform.accounts[1].name = <<" ", "\\u3000">>
    /\ cform.accounts[2].name = <<"\\u00a0", "\\u00e9", "\\u200b", "\t">>
    /\ cform.accounts[2].initialBalance = JStr(<<"x">>)
    /\ calls[1].fetch.requests[1].body.json =
         JObj([name |-> JStr(<<"\\u00e9", "\\u200b">>),
               subaccounts |->
                   JArr(<<JObj([name |-> JStr(<<"\\u00e9", "\\u200b">>),
                                accountType |-> JStr(<<"CASH">>),
                                currency |-> JStr(<<"HUF">>),
                                initialBalance |-> JNum(0)])>>)])

\* The larger of two integers.
Max(a, b) == IF a >= b THEN a ELSE b

\* C21 as stated: a call issues at most retries requests and waits at most
\* retries - 1 times.
C21_AtMostRetries ==
    call.pc # "idle" =>
        /\ Len(call.requests) =< call.retries
        /\ Len(call.waits) =< call.retries - 1

\* C21: with a transport that always answers and timers that always fire,
\* every call ends resolved or rejected; it issues one request per attempt,
\* at most max(retries, 0) requests and max(retries - 1, 0) backoff waits.
C21_CallTerminates ==
    /\ [](call.pc # "idle" =>
            /\ Len(call.requests) =< Max(call.retries, 0)
            /\ Len(call.waits) =< Max(call.retries - 1, 0)
            /\ call.pc \in {"fetching", "waiting"}
                   => Len(call.requests) = call.i + 1
            /\ Len(call.waits) =< call.i)
    /\ (call.pc \in {"fetching", "waiting"})
          ~> (call.pc \in {"resolved", "rejected"})

\* A call with three attempts ended after three requests and two waits.
C21_Witness ==
    /\ call.pc = "rejected"
    /\ call.retries = 3
    /\ Len(call.requests) = 3
    /\ Len(call.waits) = 2

\* C22: the server carries out at most one of the requests of a POST call,
\* whatever becomes of its responses.
C22_AtMostOneServed ==
    call.method = "POST" => call.served =< 1

\* C28: the view is 'auth' exactly when the shell holds no token, it holds a
\* user exactly when it holds a token, and the auth form is rendered exactly
\* when it holds no token.
C28_ViewMatchesToken ==
    /\ shell.view = "auth" <=> ~Truthy(shell.token)
    /\ shell.user # JNull <=> Truthy(shell.token)
    /\ Rendered(shell) = "AuthForm" <=> ~Truthy(shell.token)

\* The calls of loadInitialData that the mounted transaction form awaits.
LoadsInFlight ==
    {k \in 1..Len(calls) :
        /\ calls[k].owner \in {"loadContainers", "loadCategories"}
        /\ ~calls[k].orphan}

\* The positions in cs of the calls awaited by the handler owner.
CallsOf(cs, owner) == {k \in 1..Len(cs) : cs[k].owner = owner}

\* C29: GET /category is issued only in the step in which the GET
\* /account-container of the same run resolved; when that request is
\* rejected (after its retries, or by a 401) no category request follows,
\* containers and categories stay as they were, a message is set and
\* isDataLoading is false; it is also false when the category request has
\* ended, and it is true, with the submit button disabled, as long as a
\* request of the run is in flight.
C29_LoadInitialData ==
    /\ [](LoadsInFlight # {} =>
            /\ Cardinality(LoadsInFlight) = 1
            /\ tform.isDataLoading
            /\ TxnSubmitDisabled(tform))
    /\ [][ /\ (Cardinality(CallsOf(calls', "loadCategories"))
                   > Cardinality(CallsOf(calls, "loadCategories")))
               => /\ last'.ev = "settled"
                  /\ last'.owner = "loadContainers"
                  /\ last'.fetch.pc = "resolved"
           /\ (/\ last'.ev = "settled" /\ last'.owner = "loadContainers"
               /\ ~last'.orphan /\ last'.fetch.pc = "rejected")
               => /\ Cardinality(CallsOf(calls', "loadCategories"))
                       =< Cardinality(CallsOf(calls, "loadCategories"))
                  /\ tform'.containers = tform.containers
                  /\ tform'.categories = tform.categories
                  /\ tform'.message # <<>>
                  /\ ~tform'.isDataLoading
           /\ (/\ last'.ev = "settled" /\ last'.owner = "loadCategories"
               /\ ~last'.orphan)
               => ~tform'.isDataLoading ]_vars

\* A reload of a form that had loaded its containers was rejected: the
\* containers are still there, with a message.
C29_Witness ==
    /\ last.ev = "settled" /\ last.owner = "loadContainers" /\ ~last.orphan
    /\ last.fetch.pc = "rejected"
    /\ Len(last.fetch.requests) = 3
    /\ tform.containers # <<>>
    /\ tform.message # <<>>
    /\ ~tform.isDataLoading

\* C30: a handleSubmit of the container form whose name holds nothing but
\* white space, or none of whose accounts has a non-blank name, starts no
\* call: the step only sets a validation message and leaves isLoading
\* false; with a name of white space alone, one character at least, and a
\* named account the submit button of a form that is not loading can be
\* pressed.
C30_InvalidContainerIssuesNoRequest ==
    /\ []((/\ Rendered(shell) = "AccountContainerForm"
           /\ cform.containerName # <<>>
           /\ Blank(cform.containerName)
           /\ NamedAccounts(cform.accounts) # {}
           /\ ~cform.isLoading)
            => ENABLED ContainerSubmit)
    /\ [][ (/\ last'.ev = "containerSubmit"
            /\ \/ Blank(cform.containerName)
               \/ NamedAccounts(cform.accounts) = {})
             => /\ calls' = calls
                /\ cform'.message \in
                     {<<"Please enter an Account Container Name.">>,
                      <<"Please create at least one Account.">>}
                /\ cform' = [cform EXCEPT !.message = cform'.message,
                                          !.isLoading = FALSE] ]_vars

\* The form with a space and an ideographic space for a name and a named
\* account was submitted and was turned down; its button can be pressed
\* again.
C30_Witness ==
    /\ last.ev = "containerSubmit"
    /\ cform.containerName = <<" ", "\\u3000">>
    /\ NamedAccounts(cform.accounts) # {}
    /\ ENABLED ContainerSubmit
    /\ cform.message = <<"Please enter an Account Container Name.">>
    /\ ~cform.isLoading
    /\ calls = <<>>

\* The form f but for its message and its isLoading.
Entered(f) == [x \in DOMAIN f \ {"message", "isLoading"} |-> f[x]]

\* C27: the step in which a submission of the container or transaction form
\* ends rejected (401, or another failure after the retries) changes only
\* message and isLoading of that form; the step in which a submission ends
\* changes other fields only when it resolved, and then the container form
\* has an empty name and one default account, and the transaction form has
\* description, amount, latitude and longitude empty and its lists and
\* selections as before.
C27_FieldsKeptOnFailure ==
    [][ /\ (last'.ev = "settled" /\ last'.owner = "container" /\ ~last'.orphan)
             => /\ last'.fetch.pc = "rejected"
                     => Entered(cform') = Entered(cform)
                /\ ~cform'.isLoading
                /\ Entered(cform') # Entered(cform)
                     => /\ last'.fetch.pc = "resolved"
                        /\ cform'.containerName = <<>>
                        /\ Len(cform'.accounts) = 1
                        /\ cform'.accounts[1].name = <<>>
                        /\ cform'.accounts[1].accountType = "CHECKING"
                        /\ cform'.accounts[1].currency = "EUR"
                        /\ cform'.accounts[1].initialBalance = JNum(0)
        /\ (last'.ev = "settled" /\ last'.owner = "transaction" /\ ~last'.orphan)
             => /\ last'.fetch.pc = "rejected"
                     => Entered(tform') = Entered(tform)
                /\ ~tform'.isLoading
                /\ Entered(tform') # Entered(tform)
                     => /\ last'.fetch.pc = "resolved"
                        /\ Entered(tform') =
                             [Entered(tform) EXCEPT
                                 !.description = <<>>, !.amount = <<>>,
                                 !.latitude = <<>>, !.longitude = <<>>] ]_vars

\* A transaction submission with a located position, of type TRANSFER and
\* in forints, resolved: description, amount, latitude and longitude are
\* empty, the type, the currency and the three selections are as before.
C27_Witness ==
    /\ last.ev = "settled" /\ last.owner = "transaction" /\ ~last.orphan
    /\ last.fetch.pc = "resolved"
    /\ last.fetch.requests[1].body.json.f.latitude = Dec(FALSE, <<4, 7, 4, 9, 7, 9>>, 2)
    /\ last.fetch.requests[1].body.json.f.longitude = Dec(TRUE, <<1, 9, 0, 4, 0, 2>>, 2)
    /\ tform.description = <<>> /\ tform.amount = <<>>
    /\ tform.latitude = <<>> /\ tform.longitude = <<>>
    /\ tform.transactionType = "TRANSFER"
    /\ tform.selectedCurrency = "HUF"
    /\ tform.selectedContainerId = <<"i1">>
    /\ tform.selectedAccountId = <<"i1">>
    /\ tform.selectedCategoryId = <<"i1">>
    /\ ~tform.isLoading

\* The calls in cs that are submissions of the mounted form named form.
Submissions(cs, form) ==
    {k \in 1..Len(cs) :
        /\ ~cs[k].orphan
        /\ cs[k].owner \in {"login", "register", "container", "transaction"}
        /\ OwnerForm(cs[k].owner) = form}

\* C23: the isLoading of each form is true exactly when a submission that
\* form started is in flight, and no form has two submissions in flight.
C23_LoadingWhileInFlight ==
    /\ auth.isLoading <=> Submissions(calls, "AuthForm") # {}
    /\ cform.isLoading <=> Submissions(calls, "AccountContainerForm") # {}
    /\ tform.isLoading <=> Submissions(calls, "TransactionForm") # {}
    /\ \A form \in {"AuthForm", "AccountContainerForm", "TransactionForm"} :
         Cardinality(Submissions(calls, form)) =< 1

\* A submission of the transaction form is in flight beside a request for
\* the position: the form is loading and its submit button cannot be
\* pressed.
C23_Witness ==
    /\ Len(calls) = 2
    /\ Cardinality(Submissions(calls, "TransactionForm")) = 1
    /\ tform.isLoading
    /\ ~TxnInvalid(tform)
    /\ ~ENABLED TxnSubmit

\* The positions at which the account lists a and b of equal length differ.
Changed(a, b) == {k \in 1..Len(a) : a[k] # b[k]}

\* C26: the container form always has at least one account; a remove-account
\* step removes exactly one entry and an update-account step changes at
\* most one.
C26_AccountsList ==
    /\ [](Len(cform.accounts) >= 1)
    /\ [][ /\ last'.ev = "removeAccount"
                => Len(cform'.accounts) = Len(cform.accounts) - 1
           /\ last'.ev = "updateAccount"
                => /\ Len(cform'.accounts) = Len(cform.accounts)
                   /\ Cardinality(Changed(cform.accounts, cform'.accounts)) =< 1
         ]_vars

\* The accounts the Account selector offers for container v once the
\* server's list for v is shown.
AccountsOf(v) == MapAccounts(AccountsResult(v))

\* C25: once no account-list request is in flight, the accounts offered are
\* those returned for the selected container (none when its load failed
\* before any list was shown).
C25_AccountsOfSelectedContainer ==
    (/\ Rendered(shell) = "TransactionForm"
     /\ tform.selectedContainerId # <<>>
     /\ CallsOf(calls, "loadAccounts") = {})
        => tform.accounts \in {<<>>, AccountsOf(tform.selectedContainerId)}

\* The option values of the accounts of container v.
AccountIdsOf(v) == {OptionValue(AccountsOf(v)[k]) : k \in 1..Len(AccountsOf(v))}

\* C24: a selected account is one of the accounts returned for the selected
\* container, in every state and in every step that issues POST /transaction.
C24_AccountOfSelectedContainer ==
    /\ [](tform.selectedAccountId # <<>>
            => tform.selectedAccountId \in AccountIdsOf(tform.selectedContainerId))
    /\ [][ (/\ last'.ev = "transactionSubmit"
            /\ Cardinality(CallsOf(calls', "transaction"))
                 > Cardinality(CallsOf(calls, "transaction")))
              => tform.selectedAccountId \in AccountIdsOf(tform.selectedContainerId)
         ]_vars

====
